---- MODULE Spec2Model ----
(***************************************************************************)
(* Model of the retrieval-fusion pipeline of RAG4TUM:                      *)
(*   src/src/rag/retriever/hybrid_retriever.py   (HybridRetriever)         *)
(*   src/src/rag/retriever/improved_query_parser.py (enhanced_parse_query) *)
(*                                                                         *)
(* Strings are TLA+ strings; Python's str operations (lower, in, split,    *)
(* strip, replace) are computed character by character.  Scores are exact  *)
(* rationals kept as integers: a similarity s is the integer s*ScoreDen,   *)
(* a match quality q is the integer q*Q, a boosted score b is the integer  *)
(* b*ScoreDen*Q.                                                           *)
(***************************************************************************)
EXTENDS Integers, Sequences, FiniteSets, TLC

VARIABLES
  pc,        \* position inside the operation under execution
  query,     \* the query string given to retrieve / enhanced_parse_query
  filters,   \* the filters dict given to retrieve: [slug, degree, category]
  cfg,       \* self.cfg: [top_k, top_m, n_dense, n_sparse]
  docs,      \* self.docs: the corpus list loaded from bm25.pkl
  env,       \* behaviour of the external adapters during this query
  dense,     \* local `dense` of retrieve: list of <<doc, score>>
  sparse,    \* local `sparse` of retrieve: list of <<doc, score>>
  merged,    \* local `merged` of retrieve: dict in insertion order
  filtered,  \* result of _apply_filters_with_boosting
  results,   \* value returned to the caller
  exc,       \* exception in flight ("none" when there is none)
  calls,     \* how often each external adapter was invoked in this query
  logits,    \* what self.rerank.predict returned, one logit per pair
  intent,    \* QueryIntent built by enhanced_parse_query
  bm25_scores, \* the raw scores bm25.get_scores returned to _bm25_search
  fault,     \* the failure the environment raises during this run
  args,      \* the command line of the CLI: [raw, output, limit, no_filter, exact_match]
  status,    \* the exit status main returned
  shown,     \* main's results list after --exact-match and --limit
  printed    \* what main wrote to the console

vars == <<pc, query, filters, cfg, docs, env, dense, sparse, merged,
          filtered, results, exc, calls, logits, intent,
          bm25_scores, fault, args, status, shown, printed>>

----------------------------------------------------------------------------
(* Python str operations *)

UpperChars == {"A","B","C","D","E","F","G","H","I","J","K","L","M",
               "N","O","P","Q","R","S","T","U","V","W","X","Y","Z"}

LowerMap ==
  ("A" :> "a") @@ ("B" :> "b") @@ ("C" :> "c") @@ ("D" :> "d") @@
  ("E" :> "e") @@ ("F" :> "f") @@ ("G" :> "g") @@ ("H" :> "h") @@
  ("I" :> "i") @@ ("J" :> "j") @@ ("K" :> "k") @@ ("L" :> "l") @@
  ("M" :> "m") @@ ("N" :> "n") @@ ("O" :> "o") @@ ("P" :> "p") @@
  ("Q" :> "q") @@ ("R" :> "r") @@ ("S" :> "s") @@ ("T" :> "t") @@
  ("U" :> "u") @@ ("V" :> "v") @@ ("W" :> "w") @@ ("X" :> "x") @@
  ("Y" :> "y") @@ ("Z" :> "z")

CharAt(s, i) == SubSeq(s, i, i)

LowerChar(c) == IF c \in UpperChars THEN LowerMap[c] ELSE c

RECURSIVE LowerFrom(_, _)
LowerFrom(s, i) ==
  IF i > Len(s) THEN "" ELSE LowerChar(CharAt(s, i)) \o LowerFrom(s, i + 1)

\* str.lower()
Lower(s) == LowerFrom(s, 1)

\* `needle in hay` for two str
Contains(needle, hay) ==
  \E i \in 0..(Len(hay) - Len(needle)) :
     SubSeq(hay, i + 1, i + Len(needle)) = needle

RECURSIVE ReplaceFrom(_, _, _, _)
ReplaceFrom(s, old, new, i) ==
  IF i > Len(s) THEN ""
  ELSE IF CharAt(s, i) = old THEN new \o ReplaceFrom(s, old, new, i + 1)
  ELSE CharAt(s, i) \o ReplaceFrom(s, old, new, i + 1)

\* str.replace(old, new) for a one-character old
Replace(s, old, new) == ReplaceFrom(s, old, new, 1)

\* splitting at one-character separators: the pieces, empty ones included
RECURSIVE SplitFrom(_, _, _, _)
SplitFrom(s, seps, i, cur) ==
  IF i > Len(s) THEN <<cur>>
  ELSE IF CharAt(s, i) \in seps
       THEN <<cur>> \o SplitFrom(s, seps, i + 1, "")
       ELSE SplitFrom(s, seps, i + 1, cur \o CharAt(s, i))

\* str.split(sep): empty pieces are kept
SplitOn(s, sep) == SplitFrom(s, {sep}, 1, "")

Whitespace == {" "}

\* str.split(): split at runs of whitespace, no empty pieces
SplitWords(s) == SelectSeq(SplitFrom(s, Whitespace, 1, ""), LAMBDA w : w # "")

RECURSIVE LStrip(_)
LStrip(s) ==
  IF Len(s) > 0 /\ CharAt(s, 1) \in Whitespace
  THEN LStrip(SubSeq(s, 2, Len(s))) ELSE s

RECURSIVE RStrip(_)
RStrip(s) ==
  IF Len(s) > 0 /\ CharAt(s, Len(s)) \in Whitespace
  THEN RStrip(SubSeq(s, 1, Len(s) - 1)) ELSE s

\* str.strip()
Strip(s) == RStrip(LStrip(s))

Range(f) == {f[i] : i \in DOMAIN f}

Min(a, b) == IF a < b THEN a ELSE b

\* list[:n] for n >= 0
Take(s, n) == SubSeq(s, 1, Min(n, Len(s)))

----------------------------------------------------------------------------
(* Documents: langchain Document objects.  oid is the object's address     *)
(* (id(doc)), metadata a dict from keys to str, page_content the text.     *)

EmptyMeta == [k \in {} |-> ""]

\* meta.get(key, default)
MetaGet(meta, key, default) ==
  IF key \in DOMAIN meta THEN meta[key] ELSE default

\* truth value of a dict: `if not meta`
Truthy(meta) == DOMAIN meta # {}

Doc(oid, meta, content) ==
  [oid |-> oid, metadata |-> meta, page_content |-> content]

----------------------------------------------------------------------------
(* Exact arithmetic *)

\* a similarity of 1.0
ScoreDen == 60

\* a match quality (and a boost factor) of 1.0
Q == 6000

\* key=lambda x: x[1] of a (doc, score) pair
ScoreOf(pair) == pair[2]

\* list.sort(key=lambda x: x[1], reverse=True) is stable: pairs of equal
\* score keep their order
RECURSIVE InsertDesc(_, _)
InsertDesc(sorted, e) ==
  IF sorted = <<>> THEN <<e>>
  ELSE IF ScoreOf(Head(sorted)) >= ScoreOf(e)
       THEN <<Head(sorted)>> \o InsertDesc(Tail(sorted), e)
       ELSE <<e>> \o sorted

RECURSIVE SortDescFrom(_, _, _)
SortDescFrom(s, i, acc) ==
  IF i > Len(s) THEN acc
  ELSE SortDescFrom(s, i + 1, InsertDesc(acc, s[i]))

SortDesc(s) == SortDescFrom(s, 1, <<>>)

----------------------------------------------------------------------------
(* HybridRetriever._apply_filters_with_boosting *)

\* slug_query = filters["slug"].lower().replace('-', ' ')
SlugQuery(f) == Replace(Lower(f.slug), "-", " ")

\* number of terms of slug_query found in program_name
MatchingTerms(terms, program_name) ==
  Cardinality({i \in DOMAIN terms : Contains(terms[i], program_name)})

\* a program_match_quality without the word-level tier
ProgramMatchQualityNoWordLevel(meta, f) ==
  LET meta_slug    == Lower(MetaGet(meta, "slug", ""))
      program_name == Lower(MetaGet(meta, "program", ""))
      slug_query   == SlugQuery(f)
  IN IF f.slug = "" THEN 0
     ELSE IF slug_query = meta_slug \/ slug_query = program_name THEN Q
     ELSE IF Contains(slug_query, meta_slug) \/ Contains(slug_query, program_name)
          THEN (8 * Q) \div 10
     ELSE 0

\* program_match_quality of ok(), times Q
ProgramMatchQuality(meta, f) ==
  LET meta_slug    == Lower(MetaGet(meta, "slug", ""))
      program_name == Lower(MetaGet(meta, "program", ""))
      slug_query   == SlugQuery(f)
      terms        == SplitWords(slug_query)
  IN IF f.slug = "" THEN 0
     ELSE IF slug_query = meta_slug \/ slug_query = program_name THEN Q
     ELSE IF Contains(slug_query, meta_slug) \/ Contains(slug_query, program_name)
          THEN (8 * Q) \div 10
     ELSE IF \E i \in DOMAIN terms : Contains(terms[i], program_name)
          THEN (MatchingTerms(terms, program_name) * ((6 * Q) \div 10)) \div Len(terms)
     ELSE 0

\* wanted = {c.strip().lower() for c in filters["category"].split(",")}
Wanted(f) == {Lower(Strip(c)) : c \in Range(SplitOn(f.category, ","))}

\* category_match_quality of ok(), times Q
CategoryMatchQuality(doc, f) ==
  LET meta          == doc.metadata
      meta_category == Lower(MetaGet(meta, "category", ""))
      meta_section  == Lower(MetaGet(meta, "section", ""))
      wanted        == Wanted(f)
  IN IF f.category = "" THEN (5 * Q) \div 10
     ELSE IF meta_category # "" /\ meta_category \in wanted THEN Q
     ELSE IF meta_section # "" /\ \E cat \in wanted : Contains(cat, meta_section)
          THEN (8 * Q) \div 10
     ELSE IF (\E cat \in wanted : Contains(cat, meta_category))
             \/ (\E cat \in wanted : Contains(cat, meta_section))
          THEN (6 * Q) \div 10
     ELSE IF doc.page_content # ""
             /\ \E cat \in wanted : Contains(cat, Lower(doc.page_content))
          THEN (4 * Q) \div 10
     ELSE 0

\* match_quality with the test of the category tier inverted
MatchQualityInverted(pq, cq) ==
  IF pq > 0
  THEN IF 10 * cq < 7 * Q THEN (pq * 3) \div 2 + cq
       ELSE pq + (cq * 3) \div 10
  ELSE IF 10 * cq > 8 * Q THEN cq \div 2
       ELSE Q \div 10

\* match_quality of ok(), times Q
MatchQuality(pq, cq) ==
  IF pq > 0
  THEN IF 10 * cq > 7 * Q THEN (pq * 3) \div 2 + cq
       ELSE pq + (cq * 3) \div 10
  ELSE IF 10 * cq > 8 * Q THEN cq \div 2
       ELSE Q \div 10

\* ok() with the boost 1.0 + match_quality * 3.0
OkTripled(doc, f) ==
  IF ~Truthy(doc.metadata) THEN [passed |-> FALSE, boost |-> Q]
  ELSE LET pq == ProgramMatchQuality(doc.metadata, f)
           cq == CategoryMatchQuality(doc, f)
       IN IF pq > 0 \/ (f.category # "" /\ 10 * cq > 5 * Q)
          THEN [passed |-> TRUE, boost |-> Q + MatchQuality(pq, cq) * 3]
          ELSE IF f.slug # "" \/ f.category # ""
               THEN [passed |-> FALSE, boost |-> Q]
               ELSE [passed |-> TRUE, boost |-> Q]

\* ok(meta): (passed, boost), boost times Q
Ok(doc, f) ==
  IF ~Truthy(doc.metadata) THEN [passed |-> FALSE, boost |-> Q]
  ELSE LET pq == ProgramMatchQuality(doc.metadata, f)
           cq == CategoryMatchQuality(doc, f)
       IN IF pq > 0 \/ (f.category # "" /\ 10 * cq > 5 * Q)
          THEN [passed |-> TRUE, boost |-> Q + MatchQuality(pq, cq) * 2]
          ELSE IF f.slug # "" \/ f.category # ""
               THEN [passed |-> FALSE, boost |-> Q]
               ELSE [passed |-> TRUE, boost |-> Q]

\* the strict pass: for doc, score in merged_results.values()
RECURSIVE StrictPass(_, _, _)
StrictPass(m, f, i) ==
  IF i > Len(m) THEN <<>>
  ELSE LET r == Ok(m[i].doc, f)
       IN (IF r.passed THEN << <<m[i].doc, m[i].score * r.boost>> >> ELSE <<>>)
          \o StrictPass(m, f, i + 1)

\* the relaxed test: a word of slug_query longer than 3 characters occurs
\* in the candidate's program name
RelaxedMatch(doc, f) ==
  /\ Truthy(doc.metadata)
  /\ LET words        == SplitWords(SlugQuery(f))
         program_name == Lower(MetaGet(doc.metadata, "program", ""))
     IN \E i \in DOMAIN words :
           Len(words[i]) > 3 /\ Contains(words[i], program_name)

\* the relaxed pass: score * 0.8
RECURSIVE RelaxedPass(_, _, _)
RelaxedPass(m, f, i) ==
  IF i > Len(m) THEN <<>>
  ELSE (IF RelaxedMatch(m[i].doc, f)
        THEN << <<m[i].doc, m[i].score * ((8 * Q) \div 10)>> >> ELSE <<>>)
       \o RelaxedPass(m, f, i + 1)

\* whether the relaxed branch runs
RelaxedBranch(m, f) == StrictPass(m, f, 1) = <<>> /\ f.slug # ""

\* a filter that hands every candidate on when none was admitted
ApplyFiltersKeepingAll(m, f) ==
  LET strict == StrictPass(m, f, 1)
      results_with_boost ==
        IF strict = <<>> /\ f.slug # "" THEN RelaxedPass(m, f, 1) ELSE strict
  IN IF results_with_boost = <<>>
     THEN SortDesc([i \in DOMAIN m |-> <<m[i].doc, m[i].score * Q>>])
     ELSE SortDesc(results_with_boost)

ApplyFiltersWithBoosting(m, f) ==
  LET strict == StrictPass(m, f, 1)
      results_with_boost ==
        IF strict = <<>> /\ f.slug # "" THEN RelaxedPass(m, f, 1) ELSE strict
  IN SortDesc(results_with_boost)

----------------------------------------------------------------------------
(* Inputs of the checks *)

\* a metadata dict with the four keys the corpus builder writes
Meta(program, slug, category, section) ==
  [program |-> program, slug |-> slug, category |-> category, section |-> section]

\* candidates covering every tier of program and category match
DocPool ==
  { Doc(1, Meta("Data Engineering", "data-engineering", "apply", "application_deadlines"),
        "deadline 31 May"),
    Doc(2, Meta("Data Engineering", "data-engineering", "info", "overview"),
        "how to apply"),
    Doc(3, Meta("data engineering", "data-engineering", "desc", "apply_online"),
        "portal"),
    Doc(4, Meta("Data Engineering and Analytics", "data-engineering-and-analytics",
                "apply", "application_process"), "steps"),
    Doc(5, Meta("Engineering Science", "engineering-science", "keydata", "credits"),
        "120 ects"),
    Doc(6, Meta("Informatics", "informatics", "apply", "application_period"),
        "winter semester"),
    Doc(7, Meta("Informatik", "informatics", "info", ""), "modules"),
    Doc(8, EmptyMeta, "apply here"),
    Doc(9, [category |-> "reapply"], "again"),
    Doc(10, Meta("Data Engineering", "data-engineering", "keydata", "fees"),
        "costs") }

\* fused scores 0, 0.5 and 1.0
FusedScores == {0, ScoreDen \div 2, ScoreDen}

SlugInputs == {"", "data-engineering", "informatics"}

CategoryInputs == {"", "apply", "info"}

Filters(slug, category) == [slug |-> slug, degree |-> "", category |-> category]

FilterInputs ==
  {Filters(s, c) : s \in SlugInputs, c \in CategoryInputs}
  \cup {Filters("Data-Engineering", "Apply, info")}

\* most entries of a merged mapping
MaxMerged == 2

\* key = doc.metadata.get("id") or id(doc)
KeyOf(doc) ==
  IF MetaGet(doc.metadata, "id", "") # ""
  THEN [id |-> doc.metadata["id"], oid |-> 0]
  ELSE [id |-> "", oid |-> doc.oid]

Entry(doc, score) == [key |-> KeyOf(doc), doc |-> doc, score |-> score]

\* merged mappings: entries in insertion order, one per key
MergedInputs ==
  UNION { { [i \in 1..n |-> Entry(ds[i], sc[i])] :
              ds \in {x \in [1..n -> DocPool] :
                        \A i, j \in 1..n : i # j => x[i] # x[j]},
              sc \in [1..n -> FusedScores] } :
          n \in 0..MaxMerged }

NoIntent == [program |-> "", degree |-> "", category |-> "", intent_type |-> "",
             entities |-> {}, temporal_keywords |-> <<>>]

NoCalls == [dense |-> 0, sparse |-> 0, rerank |-> 0]

NoCfg == [top_k |-> 0, top_m |-> 0, n_dense |-> 0, n_sparse |-> 0]

NoEnv == [dense_fails |-> FALSE, sparse_fails |-> FALSE, rerank_fails |-> FALSE]

\* the command line, exit status and console of a run that is not the CLI's
NoArgs == [raw |-> FALSE, output |-> FALSE, limit |-> 0, no_filter |-> FALSE,
           exact_match |-> FALSE]

NotExited == 0 - 1

NotCli ==
  /\ bm25_scores = <<>> /\ fault = "none" /\ args = NoArgs /\ status = NotExited
  /\ shown = <<>> /\ printed = "nothing"

----------------------------------------------------------------------------
(* SpecFilter: _apply_filters_with_boosting applied to every input *)

InitFilter ==
  /\ pc = "filter_call"
  /\ merged \in MergedInputs
  /\ filters \in FilterInputs
  /\ query = "" /\ cfg = NoCfg /\ docs = <<>> /\ env = NoEnv
  /\ dense = <<>> /\ sparse = <<>> /\ filtered = <<>> /\ results = <<>>
  /\ exc = "none" /\ calls = NoCalls /\ logits = <<>> /\ intent = NoIntent
  /\ NotCli

FilterCall ==
  /\ pc = "filter_call"
  /\ filtered' = ApplyFiltersWithBoosting(merged, filters)
  /\ pc' = "filter_done"
  /\ UNCHANGED <<query, filters, cfg, docs, env, dense, sparse, merged,
                 results, exc, calls, logits, intent,
                 bm25_scores, fault, args, status, shown, printed>>

NextFilter == FilterCall

SpecFilter == InitFilter /\ [][NextFilter]_vars

\* the chunks of a merged mapping and of a filtered list
MergedDocs == {merged[i].doc : i \in DOMAIN merged}

FilteredDocs == {filtered[i][1] : i \in DOMAIN filtered}

\* C1: with an empty program slug and an empty category the filter returns
\* every input candidate, whatever its metadata
C1_PassThrough ==
  (pc = "filter_done" /\ filters.slug = "" /\ filters.category = "")
     => FilteredDocs = MergedDocs

\* the candidate's program equals the intent's program
ProgramExact(doc, f) ==
  f.slug # "" /\ Lower(MetaGet(doc.metadata, "program", "")) = SlugQuery(f)

\* the candidate's category equals the intent's category
CategoryExact(doc, f) ==
  f.category # "" /\ Lower(MetaGet(doc.metadata, "category", "")) = Lower(f.category)

\* the filtered list gives d1 a strictly greater boosted score than d2
BoostedAbove(d1, d2) ==
  \E i, j \in DOMAIN filtered :
     filtered[i][1] = d1 /\ filtered[j][1] = d2 /\ filtered[i][2] > filtered[j][2]

\* two candidates of equal fused score and exact program, the first with the
\* exact category, the second with a category quality below 1.0
TierPair(e1, e2) ==
  /\ e1.score = e2.score
  /\ ProgramExact(e1.doc, filters) /\ ProgramExact(e2.doc, filters)
  /\ CategoryExact(e1.doc, filters)
  /\ CategoryMatchQuality(e2.doc, filters) < Q

\* C2 as stated: for every fused score in [0,1] the candidate with the exact
\* category gets the strictly greater boosted score
C2_Monotone ==
  pc = "filter_done" =>
    \A i, j \in DOMAIN merged :
       TierPair(merged[i], merged[j]) => BoostedAbove(merged[i].doc, merged[j].doc)

\* C2 amended: the same for every fused score in (0,1]
C2_MonotonePositive ==
  pc = "filter_done" =>
    \A i, j \in DOMAIN merged :
       (TierPair(merged[i], merged[j]) /\ merged[i].score > 0)
          => BoostedAbove(merged[i].doc, merged[j].doc)

C2_Witness ==
  /\ pc = "filter_done"
  /\ \E i, j \in DOMAIN merged :
        /\ TierPair(merged[i], merged[j]) /\ merged[i].score > 0
        /\ 10 * CategoryMatchQuality(merged[j].doc, filters) > 7 * Q
        /\ BoostedAbove(merged[i].doc, merged[j].doc)

----------------------------------------------------------------------------
(* improved_query_parser.py.  Queries are words of letters separated by    *)
(* single blanks, so a regular expression \bw\b matches exactly the words  *)
(* equal to w and \s+ matches the gap between two neighbouring words.      *)

\* ' '.join(pieces)
RECURSIVE JoinFrom(_, _)
JoinFrom(pieces, i) ==
  IF i > Len(pieces) THEN ""
  ELSE IF i = Len(pieces) THEN pieces[i]
  ELSE pieces[i] \o " " \o JoinFrom(pieces, i + 1)

Join(pieces) == JoinFrom(pieces, 1)

\* re.sub(r'\b(w1|w2|...)\b', '', s): every whole word of `words` is cut
\* out, the blanks around it stay
RemoveWords(s, words) ==
  LET pieces == SplitOn(s, " ")
  IN Join([i \in DOMAIN pieces |-> IF pieces[i] \in words THEN "" ELSE pieces[i]])

DegreeWords == {"master", "bachelor", "msc", "bsc", "phd", "degree", "program"}

\* PROGRAM_PATTERNS in declaration order: one or two alternatives of whole
\* words (second = {} for the one-word patterns)
PROGRAM_PATTERNS ==
  << [first |-> {"information", "informatik"},
      second |-> {"engineering", "ingenieurwesen"}, slug |-> "information-engineering"],
     [first |-> {"computer", "computing"},
      second |-> {"science", "informatics", "informatik"}, slug |-> "computer-science"],
     [first |-> {"data", "daten"},
      second |-> {"engineering", "science", "wissenschaft"}, slug |-> "data-engineering"],
     [first |-> {"electrical", "elektro"},
      second |-> {"engineering", "technik"}, slug |-> "electrical-engineering"],
     [first |-> {"mechanical", "maschinen"},
      second |-> {"engineering", "bau"}, slug |-> "mechanical-engineering"],
     [first |-> {"bioprocess", "bio"},
      second |-> {"engineering", "technik"}, slug |-> "bioprocess-engineering"],
     [first |-> {"informatic", "informatics"}, second |-> {}, slug |-> "informatics"],
     [first |-> {"mathematic", "mathematics"}, second |-> {}, slug |-> "mathematics"],
     [first |-> {"physic", "physics"}, second |-> {}, slug |-> "physics"] >>

\* re.search(pattern, query_clean)
PatternMatches(pat, words) ==
  IF pat.second = {}
  THEN \E i \in DOMAIN words : words[i] \in pat.first
  ELSE \E i \in DOMAIN words :
          i + 1 \in DOMAIN words /\ words[i] \in pat.first /\ words[i + 1] \in pat.second

\* program_keywords of _extract_program_enhanced, in declaration order
ProgramKeywords ==
  << <<"information", "information-engineering">>,
     <<"computer", "computer-science">>,
     <<"data", "data-engineering">>,
     <<"electrical", "electrical-engineering">> >>

\* the least index of a set of indices, or 0 when there is none
FirstOf(S) == IF S = {} THEN 0 ELSE CHOOSE i \in S : \A j \in S : i <= j

ExtractProgramEnhanced(q) ==
  LET query_clean == RemoveWords(Lower(q), DegreeWords)
      words       == SplitWords(query_clean)
      p == FirstOf({i \in DOMAIN PROGRAM_PATTERNS :
                      PatternMatches(PROGRAM_PATTERNS[i], words)})
      k == FirstOf({i \in DOMAIN ProgramKeywords :
                      /\ Contains(ProgramKeywords[i][1], query_clean)
                      /\ (Contains("engineering", query_clean)
                          \/ Contains("science", query_clean))})
  IN IF p > 0 THEN PROGRAM_PATTERNS[p].slug
     ELSE IF k > 0 THEN ProgramKeywords[k][2]
     ELSE ""

\* whether `prefix` starts the word w
StartsWith(w, prefix) == Len(w) >= Len(prefix) /\ SubSeq(w, 1, Len(prefix)) = prefix

\* _extract_degree: degree_patterns in declaration order
ExtractDegree(query_lower) ==
  LET words == SplitWords(query_lower)
  IN IF \E i \in DOMAIN words : words[i] \in {"master", "msc"} THEN "msc"
     ELSE IF \E i \in DOMAIN words : words[i] \in {"bachelor", "bsc"} THEN "bsc"
     ELSE IF \E i \in DOMAIN words :
               words[i] = "phd" \/ StartsWith(words[i], "doctor") THEN "phd"
     ELSE ""

\* SEMANTIC_CATEGORIES in declaration order
SEMANTIC_CATEGORIES ==
  << [name |-> "deadline_intent", category |-> "apply",
      keywords |-> <<"deadline", "due", "when", "date", "period", "timeline",
                     "schedule", "time">>],
     [name |-> "application_intent", category |-> "apply",
      keywords |-> <<"apply", "application", "submit", "admission", "how to",
                     "process", "procedure">>],
     [name |-> "document_intent", category |-> "apply",
      keywords |-> <<"documents", "papers", "certificates", "transcripts",
                     "requirements", "needed">>],
     [name |-> "program_info_intent", category |-> "info",
      keywords |-> <<"about", "overview", "description", "what is", "curriculum",
                     "courses", "modules">>],
     [name |-> "cost_duration_intent", category |-> "keydata",
      keywords |-> <<"cost", "fee", "price", "duration", "credits", "ects",
                     "semesters", "years">>] >>

\* the weight _detect_semantic_intent adds for one keyword hit
KeywordWeight(keyword) ==
  IF keyword \in {"deadline", "when", "apply", "how to"} THEN 3
  ELSE IF keyword \in {"documents", "requirements", "cost"} THEN 2
  ELSE 1

RECURSIVE KeywordScoreFrom(_, _, _)
KeywordScoreFrom(keywords, query_lower, i) ==
  IF i > Len(keywords) THEN 0
  ELSE (IF Contains(keywords[i], query_lower) THEN KeywordWeight(keywords[i]) ELSE 0)
       + KeywordScoreFrom(keywords, query_lower, i + 1)

\* the score of one entry of SEMANTIC_CATEGORIES
IntentScore(entry, query_lower) == KeywordScoreFrom(entry.keywords, query_lower, 1)

\* the score from which an intent is "specific"
SpecificThreshold == 3

\* a max that returns the last entry of highest score
BestIntentLast(query_lower) ==
  CHOOSE i \in DOMAIN SEMANTIC_CATEGORIES :
    /\ \A j \in DOMAIN SEMANTIC_CATEGORIES :
          IntentScore(SEMANTIC_CATEGORIES[j], query_lower)
             <= IntentScore(SEMANTIC_CATEGORIES[i], query_lower)
    /\ \A j \in (i + 1)..Len(SEMANTIC_CATEGORIES) :
          IntentScore(SEMANTIC_CATEGORIES[j], query_lower)
             < IntentScore(SEMANTIC_CATEGORIES[i], query_lower)

\* max(intent_scores.items(), key=score): the first entry of highest score
BestIntent(query_lower) ==
  CHOOSE i \in DOMAIN SEMANTIC_CATEGORIES :
    /\ \A j \in DOMAIN SEMANTIC_CATEGORIES :
          IntentScore(SEMANTIC_CATEGORIES[j], query_lower)
             <= IntentScore(SEMANTIC_CATEGORIES[i], query_lower)
    /\ \A j \in 1..(i - 1) :
          IntentScore(SEMANTIC_CATEGORIES[j], query_lower)
             < IntentScore(SEMANTIC_CATEGORIES[i], query_lower)

DetectSemanticIntent(query_lower) ==
  LET best  == BestIntent(query_lower)
      score == IntentScore(SEMANTIC_CATEGORIES[best], query_lower)
  IN IF score = 0 THEN [category |-> "", type |-> "general"]
     ELSE [category |-> SEMANTIC_CATEGORIES[best].category,
           type |-> IF score >= SpecificThreshold THEN "specific" ELSE "general"]

TEMPORAL_KEYWORDS ==
  <<"when", "deadline", "due", "date", "period", "timeline", "schedule",
    "winter", "summer", "semester", "application period", "until">>

\* _extract_temporal_keywords: the table's keywords found, in table order
ExtractTemporalKeywords(query_lower) ==
  SelectSeq(TEMPORAL_KEYWORDS, LAMBDA k : Contains(k, query_lower))

\* [A-Z][a-z]+ as a whole word
IsCapitalized(w) ==
  /\ Len(w) >= 2
  /\ CharAt(w, 1) \in UpperChars
  /\ \A i \in 2..Len(w) : CharAt(w, i) \notin UpperChars

TechnicalTerms ==
  {"engineering", "science", "informatics", "mathematics", "physics", "chemistry"}

\* _extract_entities: the maximal runs of capitalized words and the
\* technical terms, as a set
ExtractEntities(q) ==
  LET words == SplitWords(q)
      lower == SplitWords(Lower(q))
      RunStart(i) == IsCapitalized(words[i])
                     /\ (i = 1 \/ ~IsCapitalized(words[i - 1]))
      RunEnd(i)   == CHOOSE j \in i..Len(words) :
                       /\ \A k \in i..j : IsCapitalized(words[k])
                       /\ (j = Len(words) \/ ~IsCapitalized(words[j + 1]))
  IN {Join(SubSeq(words, i, RunEnd(i))) : i \in {k \in DOMAIN words : RunStart(k)}}
     \cup {lower[i] : i \in {k \in DOMAIN lower : lower[k] \in TechnicalTerms}}

\* step 5 of enhanced_parse_query: the deadline override
ApplyOverrideNever(parsed, query_lower) == parsed

ApplyOverride(parsed, query_lower) ==
  IF parsed.temporal_keywords # <<>> /\ Contains("deadline", query_lower)
  THEN [parsed EXCEPT !.category = "apply", !.intent_type = "specific"]
  ELSE parsed

EnhancedParseQuery(q) ==
  LET query_lower   == Strip(Lower(q))
      intent_result == DetectSemanticIntent(query_lower)
  IN ApplyOverride(
       [program           |-> ExtractProgramEnhanced(q),
        degree            |-> ExtractDegree(query_lower),
        category          |-> intent_result.category,
        intent_type       |-> intent_result.type,
        entities          |-> ExtractEntities(q),
        temporal_keywords |-> ExtractTemporalKeywords(query_lower)],
       query_lower)

\* convert_to_legacy_format
ConvertToLegacyFormat(i) ==
  [slug |-> i.program, degree |-> i.degree, category |-> i.category]

----------------------------------------------------------------------------
(* SpecParse: enhanced_parse_query applied to every input query *)

\* the phrases queries are made of
QueryPhrases ==
  {"Deadline", "Information Engineering", "informatics master", "data", "science",
   "about overview courses modules", "cost fee", "apply", "modules"}

\* most phrases of a query
MaxPhrases == 3

QueryInputs ==
  UNION { {Join(ps) : ps \in [1..n -> QueryPhrases]} : n \in 0..MaxPhrases }

\* the step of enhanced_parse_query that raises during this call, if any
ParseFaults == {"none", "program", "degree", "category", "entities", "temporal"}

InitParse ==
  /\ pc = "parse_call"
  /\ query \in QueryInputs
  /\ filters = Filters("", "") /\ cfg = NoCfg /\ docs = <<>> /\ env = NoEnv
  /\ dense = <<>> /\ sparse = <<>> /\ merged = <<>> /\ filtered = <<>>
  /\ results = <<>> /\ exc = "none" /\ calls = NoCalls /\ logits = <<>>
  /\ intent = NoIntent
  /\ fault \in ParseFaults
  /\ bm25_scores = <<>> /\ args = NoArgs /\ status = NotExited
  /\ shown = <<>> /\ printed = "nothing"

ParseCall ==
  /\ pc = "parse_call"
  /\ fault = "none"
  /\ intent' = EnhancedParseQuery(query)
  /\ pc' = "parse_done"
  /\ UNCHANGED <<query, filters, cfg, docs, env, dense, sparse, merged,
                 filtered, results, exc, calls, logits,
                 bm25_scores, fault, args, status, shown, printed>>

\* lines 77-103: a step raises; there is no try block, the exception
\* leaves enhanced_parse_query and no intent is returned
ParseRaises ==
  /\ pc = "parse_call"
  /\ fault # "none"
  /\ exc' = fault
  /\ pc' = "parse_done"
  /\ UNCHANGED <<query, filters, cfg, docs, env, dense, sparse, merged,
                 filtered, results, calls, logits, intent,
                 bm25_scores, fault, args, status, shown, printed>>

NextParse == ParseCall \/ ParseRaises

SpecParse == InitParse /\ [][NextParse]_vars

\* C4: a query that contains "deadline" and names a recognized program
\* resolves to category "apply" and intent_type "specific", whatever other
\* category keywords it holds
C4_DeadlineOverride ==
  (pc = "parse_done" /\ Contains("deadline", Lower(query)) /\ intent.program # "")
     => (intent.category = "apply" /\ intent.intent_type = "specific")

\* a deadline query with a program whose info keywords outscore the
\* deadline keywords
C4_Witness ==
  /\ pc = "parse_done"
  /\ Contains("deadline", Lower(query)) /\ intent.program # ""
  /\ DetectSemanticIntent(Strip(Lower(query))).category = "info"
  /\ intent.category = "apply" /\ intent.intent_type = "specific"

----------------------------------------------------------------------------
(* HybridRetriever: the stages of retrieve *)

\* a final score of 1.0, in the unit of boosted scores
One == ScoreDen * Q

\* is_apply_query of retrieve
IsApplyQuery(q) ==
  \/ Contains("apply", Lower(q))
  \/ Contains("application", Lower(q))
  \/ Contains("admission", Lower(q))
  \/ Contains("how to", Lower(q))

\* program_name = filters.get("slug", "").replace("-", " ")
ProgramName(f) == Replace(f.slug, "-", " ")

application_section_terms ==
  {"application_process", "admission_process", "application_deadlines",
   "documents_required", "documents_required_for_online_application",
   "documents_required_for_enrollment", "application_period", "application"}

\* the loop of _find_program_application_docs: a document is appended once
\* for its section and once more for its category
RECURSIVE ApplicationDocsFrom(_, _, _)
ApplicationDocsFrom(corpus, program_name, i) ==
  IF i > Len(corpus) THEN <<>>
  ELSE LET meta        == corpus[i].metadata
           doc_program == Lower(MetaGet(meta, "program", ""))
           section     == Lower(MetaGet(meta, "section", ""))
           category    == Lower(MetaGet(meta, "category", ""))
       IN (IF ~(program_name = doc_program \/ Contains(program_name, doc_program))
           THEN <<>>
           ELSE (IF \E term \in application_section_terms : Contains(term, section)
                 THEN <<corpus[i]>> ELSE <<>>)
                \o (IF category = "apply" /\ section # ""
                    THEN <<corpus[i]>> ELSE <<>>))
          \o ApplicationDocsFrom(corpus, program_name, i + 1)

\* the order the comment above the sort announces: application process
\* first, then documents, then deadlines
SectionPriorityAsCommented(doc) ==
  LET section == Lower(MetaGet(doc.metadata, "section", ""))
      B(x) == IF x THEN 1 ELSE 0
  IN 8 * B(Contains("application_process", section))
     + 4 * B(Contains("document", section))
     + 2 * B(Contains("deadline", section))
     + B(Contains("admission", section))

\* the sort key of _find_program_application_docs: a tuple of four booleans,
\* compared lexicographically
SectionPriority(doc) ==
  LET section == Lower(MetaGet(doc.metadata, "section", ""))
      B(x) == IF x THEN 1 ELSE 0
  IN 8 * B(Contains("application_process", section))
     + 4 * B(Contains("admission", section))
     + 2 * B(Contains("deadline", section))
     + B(Contains("document", section))

\* unique_docs: the first document of every section label
RECURSIVE UniqueBySection(_, _, _)
UniqueBySection(ds, i, seen_sections) ==
  IF i > Len(ds) THEN <<>>
  ELSE LET section == MetaGet(ds[i].metadata, "section", "")
       IN IF section \in seen_sections
          THEN UniqueBySection(ds, i + 1, seen_sections)
          ELSE <<ds[i]>> \o UniqueBySection(ds, i + 1, seen_sections \cup {section})

\* a lookup that returns the sorted application_docs as they are
FindProgramApplicationDocsWithDuplicates(corpus, program_name) ==
  LET application_docs == ApplicationDocsFrom(corpus, Lower(program_name), 1)
      keyed  == [i \in DOMAIN application_docs |->
                   <<application_docs[i], SectionPriority(application_docs[i])>>]
      sorted == SortDesc(keyed)
  IN [i \in DOMAIN sorted |-> sorted[i][1]]

FindProgramApplicationDocs(corpus, program_name) ==
  LET application_docs == ApplicationDocsFrom(corpus, Lower(program_name), 1)
      keyed  == [i \in DOMAIN application_docs |->
                   <<application_docs[i], SectionPriority(application_docs[i])>>]
      sorted == SortDesc(keyed)
  IN UniqueBySection([i \in DOMAIN sorted |-> sorted[i][1]], 1, {})

\* results = [(1.0, (doc, 1.0)) for doc in application_docs][:top_k]
ShortCircuitResults(application_docs, top_k) ==
  Take([i \in DOMAIN application_docs |-> <<One, <<application_docs[i], One>>>>], top_k)

\* a retrieve that never looks the application documents up
LooksUpNever(q, f) == FALSE

\* whether retrieve looks the application documents up
LooksUp(q, f) == IsApplyQuery(q) /\ ProgramName(f) # ""

\* the merge loop of retrieve: one entry per key, in insertion order, the
\* greater score kept
RECURSIVE Fuse(_, _, _)
Fuse(pairs, i, m) ==
  IF i > Len(pairs) THEN m
  ELSE LET doc   == pairs[i][1]
           score == pairs[i][2]
           key   == KeyOf(doc)
           at    == {j \in DOMAIN m : m[j].key = key}
       IN IF at = {} THEN Fuse(pairs, i + 1, Append(m, Entry(doc, score)))
          ELSE LET j == CHOOSE x \in at : TRUE
               IN IF score > m[j].score
                  THEN Fuse(pairs, i + 1, [m EXCEPT ![j] = Entry(doc, score)])
                  ELSE Fuse(pairs, i + 1, m)

\* a merge that keeps every submitted pair
MergeKeepsAll(d, sp) ==
  [i \in DOMAIN (d \o sp) |-> Entry((d \o sp)[i][1], (d \o sp)[i][2])]

Merge(d, sp) == Fuse(d \o sp, 1, <<>>)

\* scores.argsort(): the indices in ascending order of score, equal scores in
\* index order
RECURSIVE ArgsortInsert(_, _, _)
ArgsortInsert(sorted, i, scores) ==
  IF sorted = <<>> THEN <<i>>
  ELSE IF scores[Head(sorted)] <= scores[i]
       THEN <<Head(sorted)>> \o ArgsortInsert(Tail(sorted), i, scores)
       ELSE <<i>> \o sorted

RECURSIVE ArgsortFrom(_, _, _)
ArgsortFrom(scores, i, acc) ==
  IF i > Len(scores) THEN acc
  ELSE ArgsortFrom(scores, i + 1, ArgsortInsert(acc, i, scores))

Argsort(scores) == ArgsortFrom(scores, 1, <<>>)

\* list[::-1]
Reverse(s) == [i \in DOMAIN s |-> s[Len(s) + 1 - i]]

\* list[-k:]: the last k elements, and the whole list for k = 0
LastK(s, k) ==
  IF k = 0 \/ k >= Len(s) THEN s ELSE SubSeq(s, Len(s) - k + 1, Len(s))

Max(S) == CHOOSE x \in S : \A y \in S : y <= x

\* _bm25_search for the raw scores bm25.get_scores returned (corpus not empty)
Bm25Search(corpus, scores, k) ==
  LET idxs == Reverse(LastK(Argsort(scores), k))
      top  == Max(Range(scores))
      mx   == IF top = 0 THEN 1 ELSE top
  IN [j \in DOMAIN idxs |-> <<corpus[idxs[j]], (scores[idxs[j]] * ScoreDen) \div mx>>]

----------------------------------------------------------------------------
(* HybridRetriever._rerank_with_exact_priority *)

TargetProgram(f) == Replace(Lower(f.slug), "-", " ")

TargetCategory(f) == Lower(f.category)

IsProgramMatch(doc, f) ==
  /\ TargetProgram(f) # ""
  /\ Contains(TargetProgram(f), Lower(MetaGet(doc.metadata, "program", "")))

IsCategoryMatch(doc, f) ==
  LET category == Lower(MetaGet(doc.metadata, "category", ""))
      section  == Lower(MetaGet(doc.metadata, "section", ""))
  IN /\ TargetCategory(f) # ""
     /\ \/ category = TargetCategory(f)
        \/ Contains(TargetCategory(f), section)
        \/ (category = "apply" /\ Contains("application", section))

\* the three match tiers, each in the order of filtered_results
ExactProgramCategoryMatches(fr, f) ==
  IF TargetProgram(f) = "" /\ TargetCategory(f) = "" THEN <<>>
  ELSE SelectSeq(fr, LAMBDA p : IsProgramMatch(p[1], f) /\ IsCategoryMatch(p[1], f))

ExactProgramMatches(fr, f) ==
  IF TargetProgram(f) = "" /\ TargetCategory(f) = "" THEN <<>>
  ELSE SelectSeq(fr, LAMBDA p : IsProgramMatch(p[1], f) /\ ~IsCategoryMatch(p[1], f))

OtherMatches(fr, f) ==
  IF TargetProgram(f) = "" /\ TargetCategory(f) = "" THEN fr
  ELSE SelectSeq(fr, LAMBDA p : ~IsProgramMatch(p[1], f))

\* a selection that ignores the match tiers
ResultsToRerankTopM(fr, f, top_m) == Take(fr, top_m)

ResultsToRerank(fr, f, top_m) ==
  IF ExactProgramCategoryMatches(fr, f) # <<>>
  THEN Take(ExactProgramCategoryMatches(fr, f), top_m)
  ELSE IF ExactProgramMatches(fr, f) # <<>>
  THEN Take(ExactProgramMatches(fr, f), top_m)
  ELSE Take(OtherMatches(fr, f), top_m)

\* Document.__eq__ compares the fields, not the object's address
DocEq(a, b) == a.metadata = b.metadata /\ a.page_content = b.page_content

\* reranked.sort(reverse=True) compares the (logit, (doc, base)) tuples: two
\* entries of equal logit are ordered by their documents, and Document has no
\* ordering, so the comparison raises TypeError unless the documents are equal
SortRaises(reranked) ==
  \E i, j \in DOMAIN reranked :
     i # j /\ reranked[i][1] = reranked[j][1]
           /\ ~DocEq(reranked[i][2][1], reranked[j][2][1])

\* (logit, (doc, base)) >= (logit', (doc', base')) for tuples that compare
TupleGeq(a, b) ==
  a[1] > b[1] \/ (a[1] = b[1] /\ a[2][2] >= b[2][2])

RECURSIVE InsertTupleDesc(_, _)
InsertTupleDesc(sorted, e) ==
  IF sorted = <<>> THEN <<e>>
  ELSE IF TupleGeq(Head(sorted), e)
       THEN <<Head(sorted)>> \o InsertTupleDesc(Tail(sorted), e)
       ELSE <<e>> \o sorted

RECURSIVE SortTuplesFrom(_, _, _)
SortTuplesFrom(s, i, acc) ==
  IF i > Len(s) THEN acc
  ELSE SortTuplesFrom(s, i + 1, InsertTupleDesc(acc, s[i]))

SortTuplesDesc(s) == SortTuplesFrom(s, 1, <<>>)

\* reranked = [(float(logit), (doc, base)) ...], logits in units of 1.0
Reranked(to_rerank, lg) ==
  [i \in DOMAIN to_rerank |-> <<lg[i] * One, to_rerank[i]>>]

\* a reranker that never inserts
NeedsInsertionNever(fr, f, top3) == FALSE

\* the test of the rank-1 insertion
NeedsInsertion(fr, f, top3) ==
  /\ Len(ExactProgramCategoryMatches(fr, f)) > 0
  /\ ~\E i \in DOMAIN top3 :
        /\ Lower(MetaGet(top3[i][2][1].metadata, "program", "")) = TargetProgram(f)
        /\ Lower(MetaGet(top3[i][2][1].metadata, "category", "")) = "apply"

\* the apply documents among the exact program+category matches
ApplyMatches(fr, f) ==
  SelectSeq(ExactProgramCategoryMatches(fr, f),
            LAMBDA p : Lower(MetaGet(p[1].metadata, "category", "")) = "apply")

\* a try block that does not truncate again after the insertion
RerankedResultsNoRetruncate(fr, f, c, lg) ==
  LET top  == Take(SortTuplesDesc(Reranked(ResultsToRerank(fr, f, c.top_m), lg)),
                   c.top_k)
      cand == ApplyMatches(fr, f)
  IN IF NeedsInsertion(fr, f, Take(top, 3)) /\ cand # <<>>
     THEN << <<One, Head(cand)>> >> \o top
     ELSE top

\* the part of the try block after predict returned and the sort succeeded
RerankedResults(fr, f, c, lg) ==
  LET top  == Take(SortTuplesDesc(Reranked(ResultsToRerank(fr, f, c.top_m), lg)),
                   c.top_k)
      cand == ApplyMatches(fr, f)
  IN IF NeedsInsertion(fr, f, Take(top, 3)) /\ cand # <<>>
     THEN Take(<< <<One, Head(cand)>> >> \o top, c.top_k)
     ELSE top

\* a fallback that returns every filtered result
FallbackResultsUntruncated(fr, c) ==
  [i \in DOMAIN SortDesc(fr) |-> <<SortDesc(fr)[i][2], SortDesc(fr)[i]>>]

\* the except branch: the filtered results by boosted score
FallbackResults(fr, c) ==
  LET sorted_results == Take(SortDesc(fr), c.top_k)
  IN [i \in DOMAIN sorted_results |-> <<sorted_results[i][2], sorted_results[i]>>]

----------------------------------------------------------------------------
(* Spec: one call of HybridRetriever.retrieve *)

\* a metadata dict that also carries the chunk's id
MetaWithId(id, program, slug, category, section) ==
  [id |-> id, program |-> program, slug |-> slug, category |-> category,
   section |-> section]

\* self.docs; the third chunk carries no id and is keyed by object address
Corpus ==
  << Doc(1, MetaWithId("c1", "Data Engineering", "data-engineering", "apply",
                       "application_deadlines"), "deadline 31 May"),
     Doc(2, MetaWithId("c2", "Data Engineering", "data-engineering", "info",
                       "how_to_apply"), "courses and modules"),
     Doc(3, Meta("Data Engineering and Analytics", "data-engineering-and-analytics",
                 "apply", "application_process"), "how to apply"),
     Doc(4, MetaWithId("c4", "Informatics", "informatics", "apply",
                       "application_period"), "winter semester") >>

\* the vector store holds its own Document objects for the same chunks
DenseOidOffset == 100

DenseCopy(doc) == [doc EXCEPT !.oid = doc.oid + DenseOidOffset]

QueryPool == {"how to apply", "Data Engineering courses"}

FilterPool ==
  {Filters(s, c) : s \in {"", "data-engineering", "mathematics"},
                   c \in CategoryInputs}

\* self.cfg: small limits that truncate, a top_m that leaves nothing to
\* rerank, and the defaults of the code
CfgPool ==
  { [top_k |-> 1, top_m |-> 2, n_dense |-> 1, n_sparse |-> 2],
    [top_k |-> 2, top_m |-> 0, n_dense |-> 1, n_sparse |-> 1],
    [top_k |-> 8, top_m |-> 12, n_dense |-> 1, n_sparse |-> 3] }

EnvPool == [dense_fails : BOOLEAN, sparse_fails : BOOLEAN, rerank_fails : BOOLEAN]

\* similarities 1 - distance the vector store can report
DenseSims == {ScoreDen \div 2, ScoreDen}

\* the lists similarity_search_with_score can return for k: at most k
\* distinct chunks, nearest first
DenseOutcomes(corpus, k) ==
  UNION { { [i \in 1..n |-> <<DenseCopy(corpus[ix[i]]), sim[i]>>] :
              ix \in {x \in [1..n -> DOMAIN corpus] :
                        \A i, j \in 1..n : i # j => x[i] # x[j]},
              sim \in {y \in [1..n -> DenseSims] :
                        \A i, j \in 1..n : i < j => y[i] >= y[j]} } :
          n \in 0..Min(k, Len(corpus)) }

\* greatest raw score bm25.get_scores reports for a chunk
MaxRaw == 1

RawScores(corpus) == [DOMAIN corpus -> 0..MaxRaw]

\* logits the cross-encoder can report, in units of 1.0
LogitValues == {0 - 2, 3}

Init ==
  /\ pc = "start"
  /\ query \in QueryPool
  /\ filters \in FilterPool
  /\ cfg \in CfgPool
  /\ docs = Corpus
  /\ env \in EnvPool
  /\ dense = <<>> /\ sparse = <<>> /\ merged = <<>> /\ filtered = <<>>
  /\ results = <<>> /\ exc = "none" /\ calls = NoCalls /\ logits = <<>>
  /\ intent = NoIntent
  /\ NotCli

\* a short-circuit that sorts self.docs in place
ShortCircuitSortingCorpus ==
  /\ pc = "start"
  /\ LooksUp(query, filters)
  /\ FindProgramApplicationDocs(docs, ProgramName(filters)) # <<>>
  /\ results' = ShortCircuitResults(
                  FindProgramApplicationDocs(docs, ProgramName(filters)), cfg.top_k)
  /\ docs' = LET keyed == SortDesc([i \in DOMAIN docs |->
                                     <<docs[i], SectionPriority(docs[i])>>])
             IN [i \in DOMAIN keyed |-> keyed[i][1]]
  /\ pc' = "done"
  /\ UNCHANGED <<query, filters, cfg, env, dense, sparse, merged,
                 filtered, exc, calls, logits, intent,
                 bm25_scores, fault, args, status, shown, printed>>

\* lines 67-90: the application lookup returns its documents
ShortCircuit ==
  /\ pc = "start"
  /\ LooksUp(query, filters)
  /\ FindProgramApplicationDocs(docs, ProgramName(filters)) # <<>>
  /\ results' = ShortCircuitResults(
                  FindProgramApplicationDocs(docs, ProgramName(filters)), cfg.top_k)
  /\ pc' = "done"
  /\ UNCHANGED <<query, filters, cfg, docs, env, dense, sparse, merged,
                 filtered, exc, calls, logits, intent,
                 bm25_scores, fault, args, status, shown, printed>>

\* lines 67-96: no lookup, or a lookup that found nothing
StandardPath ==
  /\ pc = "start"
  /\ ~(LooksUp(query, filters)
       /\ FindProgramApplicationDocs(docs, ProgramName(filters)) # <<>>)
  /\ pc' = "dense"
  /\ UNCHANGED <<query, filters, cfg, docs, env, dense, sparse, merged,
                 filtered, results, exc, calls, logits, intent,
                 bm25_scores, fault, args, status, shown, printed>>

\* lines 99-100: the dense search returns
DenseOk ==
  /\ pc = "dense"
  /\ ~env.dense_fails
  /\ dense' \in DenseOutcomes(docs, cfg.n_dense)
  /\ calls' = [calls EXCEPT !.dense = @ + 1]
  /\ pc' = "sparse"
  /\ UNCHANGED <<query, filters, cfg, docs, env, sparse, merged, filtered,
                 results, exc, logits, intent,
                 bm25_scores, fault, args, status, shown, printed>>

\* line 99: the dense search raises
DenseRaises ==
  /\ pc = "dense"
  /\ env.dense_fails
  /\ calls' = [calls EXCEPT !.dense = @ + 1]
  /\ exc' = "dense"
  /\ pc' = "except"
  /\ UNCHANGED <<query, filters, cfg, docs, env, dense, sparse, merged,
                 filtered, results, logits, intent,
                 bm25_scores, fault, args, status, shown, printed>>

\* line 103: the sparse search returns
SparseOk ==
  /\ pc = "sparse"
  /\ ~env.sparse_fails
  /\ \E scores \in RawScores(docs) :
        sparse' = Bm25Search(docs, scores, cfg.n_sparse)
  /\ calls' = [calls EXCEPT !.sparse = @ + 1]
  /\ pc' = "merge"
  /\ UNCHANGED <<query, filters, cfg, docs, env, dense, merged, filtered,
                 results, exc, logits, intent,
                 bm25_scores, fault, args, status, shown, printed>>

\* line 103: the sparse search raises
SparseRaises ==
  /\ pc = "sparse"
  /\ env.sparse_fails
  /\ calls' = [calls EXCEPT !.sparse = @ + 1]
  /\ exc' = "sparse"
  /\ pc' = "except"
  /\ UNCHANGED <<query, filters, cfg, docs, env, dense, sparse, merged,
                 filtered, results, logits, intent,
                 bm25_scores, fault, args, status, shown, printed>>

\* lines 105-110
MergeStep ==
  /\ pc = "merge"
  /\ merged' = Merge(dense, sparse)
  /\ pc' = "filter"
  /\ UNCHANGED <<query, filters, cfg, docs, env, dense, sparse, filtered,
                 results, exc, calls, logits, intent,
                 bm25_scores, fault, args, status, shown, printed>>

\* lines 116-120: nothing passes the filter
FilterEmpty ==
  /\ pc = "filter"
  /\ ApplyFiltersWithBoosting(merged, filters) = <<>>
  /\ filtered' = <<>>
  /\ results' = <<>>
  /\ pc' = "done"
  /\ UNCHANGED <<query, filters, cfg, docs, env, dense, sparse, merged,
                 exc, calls, logits, intent,
                 bm25_scores, fault, args, status, shown, printed>>

\* lines 116-125: candidates pass the filter
FilterSome ==
  /\ pc = "filter"
  /\ ApplyFiltersWithBoosting(merged, filters) # <<>>
  /\ filtered' = ApplyFiltersWithBoosting(merged, filters)
  /\ pc' = "rerank"
  /\ UNCHANGED <<query, filters, cfg, docs, env, dense, sparse, merged,
                 results, exc, calls, logits, intent,
                 bm25_scores, fault, args, status, shown, printed>>

\* lines 307-324, 356-358: no document to rerank, predict is not called
RerankNothing ==
  /\ pc = "rerank"
  /\ ResultsToRerank(filtered, filters, cfg.top_m) = <<>>
  /\ results' = <<>>
  /\ pc' = "done"
  /\ UNCHANGED <<query, filters, cfg, docs, env, dense, sparse, merged,
                 filtered, exc, calls, logits, intent,
                 bm25_scores, fault, args, status, shown, printed>>

\* lines 324-355: predict returns and the sort succeeds
RerankOk ==
  /\ pc = "rerank"
  /\ ResultsToRerank(filtered, filters, cfg.top_m) # <<>>
  /\ ~env.rerank_fails
  /\ \E lg \in [DOMAIN ResultsToRerank(filtered, filters, cfg.top_m) -> LogitValues] :
        /\ ~SortRaises(Reranked(ResultsToRerank(filtered, filters, cfg.top_m), lg))
        /\ logits' = lg
        /\ results' = RerankedResults(filtered, filters, cfg, lg)
  /\ calls' = [calls EXCEPT !.rerank = @ + 1]
  /\ pc' = "done"
  /\ UNCHANGED <<query, filters, cfg, docs, env, dense, sparse, merged,
                 filtered, exc, intent,
                 bm25_scores, fault, args, status, shown, printed>>

\* lines 326, 360-365: predict raises, the except branch answers
RerankRaises ==
  /\ pc = "rerank"
  /\ ResultsToRerank(filtered, filters, cfg.top_m) # <<>>
  /\ env.rerank_fails
  /\ results' = FallbackResults(filtered, cfg)
  /\ calls' = [calls EXCEPT !.rerank = @ + 1]
  /\ pc' = "done"
  /\ UNCHANGED <<query, filters, cfg, docs, env, dense, sparse, merged,
                 filtered, exc, logits, intent,
                 bm25_scores, fault, args, status, shown, printed>>

\* lines 334, 360-365: predict returns, the sort raises TypeError, the
\* except branch answers
RerankSortRaises ==
  /\ pc = "rerank"
  /\ ResultsToRerank(filtered, filters, cfg.top_m) # <<>>
  /\ ~env.rerank_fails
  /\ \E lg \in [DOMAIN ResultsToRerank(filtered, filters, cfg.top_m) -> LogitValues] :
        /\ SortRaises(Reranked(ResultsToRerank(filtered, filters, cfg.top_m), lg))
        /\ logits' = lg
  /\ results' = FallbackResults(filtered, cfg)
  /\ calls' = [calls EXCEPT !.rerank = @ + 1]
  /\ pc' = "done"
  /\ UNCHANGED <<query, filters, cfg, docs, env, dense, sparse, merged,
                 filtered, exc, intent,
                 bm25_scores, fault, args, status, shown, printed>>

\* lines 130-132: retrieve catches the exception and returns []
Except ==
  /\ pc = "except"
  /\ results' = <<>>
  /\ exc' = "none"
  /\ pc' = "done"
  /\ UNCHANGED <<query, filters, cfg, docs, env, dense, sparse, merged,
                 filtered, calls, logits, intent,
                 bm25_scores, fault, args, status, shown, printed>>

Next ==
  \/ ShortCircuit \/ StandardPath
  \/ DenseOk \/ DenseRaises
  \/ SparseOk \/ SparseRaises
  \/ MergeStep
  \/ FilterEmpty \/ FilterSome
  \/ RerankNothing \/ RerankOk \/ RerankRaises \/ RerankSortRaises
  \/ Except

Spec == Init /\ [][Next]_vars

----------------------------------------------------------------------------
(* Claims about retrieve *)

\* the (chunk, score) pairs submitted to the merge loop
Submitted == dense \o sparse

\* C3: after fusion the merged mapping holds exactly one entry per distinct
\* chunk identifier submitted by the dense and sparse searches, and the
\* entry's score is the maximum of the scores submitted for that identifier.
C3_FusionMax ==
  pc \in {"filter", "rerank"} =>
    /\ \A i, j \in DOMAIN merged : merged[i].key = merged[j].key => i = j
    /\ {merged[i].key : i \in DOMAIN merged}
         = {KeyOf(Submitted[i][1]) : i \in DOMAIN Submitted}
    /\ \A i \in DOMAIN merged :
         merged[i].score
           = Max({Submitted[j][2] : j \in {x \in DOMAIN Submitted :
                                     KeyOf(Submitted[x][1]) = merged[i].key}})

\* the same chunk was submitted by both searches with different scores
C3_Witness ==
  /\ pc = "filter"
  /\ \E i \in DOMAIN dense : \E j \in DOMAIN sparse :
        /\ KeyOf(dense[i][1]) = KeyOf(sparse[j][1])
        /\ dense[i][2] # sparse[j][2]

\* predict was called and raised
PredictRaised == pc = "done" /\ calls.rerank = 1 /\ env.rerank_fails

\* C6: when the reranker's predict call raises, retrieve raises nothing and
\* returns min(top_k, n) of the n filtered candidates: the highest boosted
\* ones, in non-increasing order of boosted score, each with its boosted
\* score as final score.
C6_RerankFallback ==
  PredictRaised =>
    /\ exc = "none"
    /\ Len(results) = Min(cfg.top_k, Len(filtered))
    /\ \A i \in DOMAIN results :
         /\ results[i][1] = results[i][2][2]
         /\ \E j \in DOMAIN filtered : filtered[j] = results[i][2]
    /\ \A i, j \in DOMAIN results :
         /\ i < j => results[i][1] >= results[j][1]
         /\ i # j => results[i][2] # results[j][2]
    /\ \A j \in DOMAIN filtered :
         (\A i \in DOMAIN results : results[i][2] # filtered[j])
           => \A i \in DOMAIN results : filtered[j][2] <= results[i][1]

\* predict raised with more filtered candidates than top_k
C6_Witness ==
  PredictRaised /\ Len(filtered) > cfg.top_k /\ results # <<>>

\* C7: when exactly one of the dense and sparse searches fails, retrieve
\* still runs the other search and answers from the surviving candidates:
\* it does not return an empty list when they pass the filter.
C7_DegradedMode ==
  (pc = "done" /\ calls.dense = 1 /\ env.dense_fails # env.sparse_fails) =>
    /\ calls.sparse = 1
    /\ (ApplyFiltersWithBoosting(Merge(dense, sparse), filters) # <<>>
          => results # <<>>)

\* C8: when both the dense and the sparse search fail, retrieve ends with an
\* error that reaches the caller, not with an empty list.
C8_FatalFailure ==
  (pc = "done" /\ calls.dense = 1 /\ env.dense_fails /\ env.sparse_fails)
    => exc # "none"

\* _rerank_with_exact_priority returned from its try block
RerankCompleted ==
  /\ pc = "done" /\ filtered # <<>>
  /\ calls.rerank = 1 => ~env.rerank_fails
  /\ ~SortRaises(Reranked(ResultsToRerank(filtered, filters, cfg.top_m), logits))

\* a chunk of the intent's program with category "apply"
IsApplyChunk(doc) ==
  /\ TargetProgram(filters) # ""
  /\ Contains(TargetProgram(filters), Lower(MetaGet(doc.metadata, "program", "")))
  /\ Lower(MetaGet(doc.metadata, "category", "")) = "apply"

ApplyChunkInTop3 ==
  \E i \in DOMAIN results : i <= 3 /\ IsApplyChunk(results[i][2][1])

\* C9 (as stated): when the reranking completes without error, top_k >= 1
\* and a pre-rerank candidate is an apply chunk of the intent's program, one
\* of the first 3 results is such a chunk.
C9_Insertion ==
  (/\ RerankCompleted
   /\ cfg.top_k >= 1
   /\ \E j \in DOMAIN filtered : IsApplyChunk(filtered[j][1]))
    => ApplyChunkInTop3

\* C9 (amended): the same, for an intent whose category is "apply" and a
\* top_m >= 1.
C9_InsertionApplyIntent ==
  (/\ RerankCompleted
   /\ cfg.top_k >= 1
   /\ cfg.top_m >= 1
   /\ TargetCategory(filters) = "apply"
   /\ \E j \in DOMAIN filtered : IsApplyChunk(filtered[j][1]))
    => ApplyChunkInTop3

\* the reranker ranked another chunk first and the apply chunk was inserted
C9_Witness ==
  /\ RerankCompleted
  /\ TargetCategory(filters) = "apply"
  /\ \E j \in DOMAIN filtered : IsApplyChunk(filtered[j][1])
  /\ results # <<>> /\ results[1][1] = One
  /\ IsApplyChunk(results[1][2][1])

\* the chunks the application lookup finds for this query
Lookup == FindProgramApplicationDocs(docs, ProgramName(filters))

\* the query signals an application intent and a program was identified
ApplicationIntent == IsApplyQuery(query) /\ ProgramName(filters) # ""

\* C10: when the query signals an application intent, a program was
\* identified and the lookup finds chunks, no search and no reranker is ever
\* invoked and the result is the lookup's chunks truncated to top_k, each with
\* final score 1.0; when the lookup finds nothing the dense search runs.
C10_ShortCircuit ==
  /\ (ApplicationIntent /\ Lookup # <<>>) =>
       /\ calls = NoCalls
       /\ pc \in {"start", "done"}
       /\ pc = "done" =>
            /\ Len(results) = Min(cfg.top_k, Len(Lookup))
            /\ \A i \in DOMAIN results :
                 results[i] = <<One, <<Lookup[i], One>>>>
  /\ (ApplicationIntent /\ Lookup = <<>> /\ pc = "done") => calls.dense = 1

\* the lookup found more chunks than top_k and its first ones were returned
C10_Witness ==
  /\ pc = "done" /\ ApplicationIntent
  /\ Len(Lookup) > cfg.top_k
  /\ results # <<>> /\ calls = NoCalls

\* C11: on every path through retrieve the returned list has at most top_k
\* entries, for every top_k >= 1.
C11_ResultSizeBound ==
  (pc = "done" /\ cfg.top_k >= 1) => Len(results) <= cfg.top_k

\* the reranked list was already top_k long when the apply chunk was inserted
C11_Witness ==
  /\ RerankCompleted
  /\ Len(ResultsToRerank(filtered, filters, cfg.top_m)) >= cfg.top_k
  /\ Len(results) = cfg.top_k
  /\ results[1][1] = One

\* the merge ran: both searches returned
Merged == pc \in {"filter", "rerank", "done"} /\ calls.sparse = 1 /\ ~env.sparse_fails

\* neither the strict pass nor the relaxed pass admits a merged candidate
NoCandidateAdmitted ==
  \A i \in DOMAIN merged :
     /\ ~Ok(merged[i].doc, filters).passed
     /\ ~(filters.slug # "" /\ RelaxedMatch(merged[i].doc, filters))

\* C12: when the strict filter and the relaxed fallback admit no candidate,
\* retrieve returns an empty list, raises nothing and never invokes the
\* reranker.
C12_EmptyAfterFilter ==
  (Merged /\ NoCandidateAdmitted) =>
    /\ calls.rerank = 0
    /\ exc = "none"
    /\ pc = "done" => results = <<>>

\* candidates were merged, a program filter was set and both passes rejected
\* every candidate
C12_Witness ==
  /\ Merged /\ pc = "done"
  /\ merged # <<>> /\ filters.slug # ""
  /\ NoCandidateAdmitted

----------------------------------------------------------------------------
(* SpecBm25: _bm25_search applied to every corpus, score vector and k *)

\* self.docs: the corpus and its prefixes, the empty index included
CorpusInputs == {SubSeq(Corpus, 1, n) : n \in 0..Len(Corpus)}

\* greatest raw score of a chunk
MaxScore == 3

\* greatest k asked for
MaxK == 5

\* what bm25.get_scores can return for a corpus: one score per chunk
ScoreInputs(corpus) == [DOMAIN corpus -> 0..MaxScore]

InitBm25 ==
  /\ pc = "bm25_call"
  /\ docs \in CorpusInputs
  /\ bm25_scores \in ScoreInputs(docs)
  /\ \E k \in 0..MaxK : cfg = [NoCfg EXCEPT !.n_sparse = k]
  /\ query = "" /\ filters = Filters("", "") /\ env = NoEnv
  /\ dense = <<>> /\ sparse = <<>> /\ merged = <<>> /\ filtered = <<>>
  /\ results = <<>> /\ exc = "none" /\ calls = NoCalls /\ logits = <<>>
  /\ intent = NoIntent
  /\ fault = "none" /\ args = NoArgs /\ status = NotExited
  /\ shown = <<>> /\ printed = "nothing"

\* lines 49-53: the scores have a maximum and the list is returned
Bm25Returns ==
  /\ pc = "bm25_call"
  /\ bm25_scores # <<>>
  /\ sparse' = Bm25Search(docs, bm25_scores, cfg.n_sparse)
  /\ pc' = "bm25_done"
  /\ UNCHANGED <<query, filters, cfg, docs, env, dense, merged, filtered,
                 results, exc, calls, logits, intent,
                 bm25_scores, fault, args, status, shown, printed>>

\* line 52: scores.max() of an empty array raises ValueError
Bm25Raises ==
  /\ pc = "bm25_call"
  /\ bm25_scores = <<>>
  /\ exc' = "ValueError"
  /\ pc' = "bm25_done"
  /\ UNCHANGED <<query, filters, cfg, docs, env, dense, sparse, merged,
                 filtered, results, calls, logits, intent,
                 bm25_scores, fault, args, status, shown, printed>>

NextBm25 == Bm25Returns \/ Bm25Raises

SpecBm25 == InitBm25 /\ [][NextBm25]_vars

\* the divisor the claim names: the maximum raw score, or 1 when it is 0
Divisor ==
  IF \A i \in DOMAIN bm25_scores : bm25_scores[i] = 0 THEN 1
  ELSE Max(Range(bm25_scores))

\* C13: _bm25_search returns for each selected chunk its raw score divided
\* by the maximum raw score (by 1 when the maximum is 0), a similarity in
\* [0,1]; it does not raise, also for an empty index.
C13_Normalisation ==
  pc = "bm25_done" =>
    /\ exc = "none"
    /\ \A j \in DOMAIN sparse :
         /\ \E i \in DOMAIN docs :
               /\ sparse[j][1] = docs[i]
               /\ sparse[j][2] * Divisor = bm25_scores[i] * ScoreDen
         /\ 0 <= sparse[j][2] /\ sparse[j][2] <= ScoreDen

\* C14: for every corpus and every k >= 0, _bm25_search returns at most k
\* pairs in non-increasing order of similarity, and they are the k
\* highest-scoring chunks of the corpus.
C14_SizeAndOrder ==
  (pc = "bm25_done" /\ docs # <<>>) =>
    /\ Len(sparse) <= cfg.n_sparse
    /\ Len(sparse) = Min(cfg.n_sparse, Len(docs))
    /\ \A i, j \in DOMAIN sparse :
         /\ i < j => sparse[i][2] >= sparse[j][2]
         /\ i # j => sparse[i][1] # sparse[j][1]
    /\ \A i \in DOMAIN docs :
         (\A j \in DOMAIN sparse : sparse[j][1] # docs[i])
           => \A j \in DOMAIN sparse :
                 bm25_scores[i] * ScoreDen <= sparse[j][2] * Divisor

----------------------------------------------------------------------------
(* SpecCli: one run of cli.main *)

\* failures of HybridRetriever(args.config): a missing index or config
\* file, an invalid YAML config, any other error of the constructor
InitFaults == {"FileNotFoundError", "YAMLError", "Exception"}

\* the failures the environment can raise during a run; "OSError" is raised
\* by open(args.output, 'w')
CliFaults == {"none", "OSError"} \cup InitFaults

\* --limit: not given (0), or a number
LimitInputs == {0, 1}

ArgsInputs ==
  [raw : BOOLEAN, output : BOOLEAN, limit : LimitInputs, no_filter : BOOLEAN,
   exact_match : BOOLEAN]

\* filters parse_query can return for the query
ParsedFilters == {Filters("", ""), Filters("data-engineering", "apply")}

\* lists retr.retrieve can return: [(score, (doc, base)), ...]
RetrieveOutcomes ==
  { <<>>,
    << <<One, <<Corpus[4], One>>>> >>,
    << <<One, <<Corpus[4], One>>>>, <<One, <<Corpus[1], One>>>> >> }

\* lines 55-69: --exact-match keeps the results of the program, if any
ExactMatchFilter(a, f, rs) ==
  LET slug == Replace(Lower(f.slug), "-", " ")
      exact_matches ==
        SelectSeq(rs, LAMBDA r :
          LET program == Lower(MetaGet(r[2][1].metadata, "program", ""))
          IN slug = program \/ Contains(slug, program))
  IN IF a.exact_match /\ f.slug # "" /\ rs # <<>> /\ exact_matches # <<>>
     THEN exact_matches ELSE rs

\* lines 72-73: --limit
LimitFilter(a, rs) ==
  IF a.limit # 0 /\ 0 < a.limit /\ a.limit < Len(rs) THEN Take(rs, a.limit) ELSE rs

InitCli ==
  /\ pc = "cli_init"
  /\ args \in ArgsInputs
  /\ fault \in CliFaults
  /\ query = "Data Engineering apply"
  /\ filters = Filters("", "")
  /\ cfg = NoCfg /\ docs = Corpus /\ env = NoEnv
  /\ dense = <<>> /\ sparse = <<>> /\ merged = <<>> /\ filtered = <<>>
  /\ results = <<>> /\ exc = "none" /\ calls = NoCalls /\ logits = <<>>
  /\ intent = NoIntent /\ bm25_scores = <<>>
  /\ status = NotExited /\ shown = <<>> /\ printed = "nothing"

\* lines 40, 143-154: the constructor raises, main logs and returns 1
CliInitFails ==
  /\ pc = "cli_init"
  /\ fault \in InitFaults
  /\ status' = 1
  /\ pc' = "cli_done"
  /\ UNCHANGED <<query, filters, cfg, docs, env, dense, sparse, merged,
                 filtered, results, exc, calls, logits, intent,
                 bm25_scores, fault, args, shown, printed>>

\* lines 40-73: the retriever is built, the query parsed and answered, the
\* results filtered by --exact-match and --limit
CliQuery ==
  /\ pc = "cli_init"
  /\ fault \notin InitFaults
  /\ \E f \in ParsedFilters : \E rs \in RetrieveOutcomes :
        /\ filters' = IF args.no_filter THEN Filters("", "") ELSE f
        /\ results' = rs
        /\ shown' = LimitFilter(args, ExactMatchFilter(args, filters', rs))
  /\ pc' = "cli_output"
  /\ UNCHANGED <<query, cfg, docs, env, dense, sparse, merged, filtered,
                 exc, calls, logits, intent,
                 bm25_scores, fault, args, status, printed>>

\* lines 76-93, 149-154: the output file cannot be written, main logs and
\* returns 1
CliSaveFails ==
  /\ pc = "cli_output"
  /\ args.output /\ fault = "OSError"
  /\ status' = 1
  /\ pc' = "cli_done"
  /\ UNCHANGED <<query, filters, cfg, docs, env, dense, sparse, merged,
                 filtered, results, exc, calls, logits, intent,
                 bm25_scores, fault, args, shown, printed>>

\* lines 76-97: the results are saved if asked for, the header is printed
CliSave ==
  /\ pc = "cli_output"
  /\ ~(args.output /\ fault = "OSError")
  /\ printed' = "header"
  /\ pc' = "cli_print"
  /\ UNCHANGED <<query, filters, cfg, docs, env, dense, sparse, merged,
                 filtered, results, exc, calls, logits, intent,
                 bm25_scores, fault, args, status, shown>>

\* lines 99-106: the no-results message
CliPrintNoResults ==
  /\ pc = "cli_print"
  /\ shown = <<>>
  /\ printed' = "no_results"
  /\ status' = 0
  /\ pc' = "cli_done"
  /\ UNCHANGED <<query, filters, cfg, docs, env, dense, sparse, merged,
                 filtered, results, exc, calls, logits, intent,
                 bm25_scores, fault, args, shown>>

\* lines 108-109, 149-154: json.dumps(results) meets a Document, raises
\* TypeError, main logs and returns 1
CliPrintRaw ==
  /\ pc = "cli_print"
  /\ shown # <<>> /\ args.raw
  /\ status' = 1
  /\ pc' = "cli_done"
  /\ UNCHANGED <<query, filters, cfg, docs, env, dense, sparse, merged,
                 filtered, results, exc, calls, logits, intent,
                 bm25_scores, fault, args, shown, printed>>

\* lines 110-141: the ranked results are printed
CliPrintRanked ==
  /\ pc = "cli_print"
  /\ shown # <<>> /\ ~args.raw
  /\ printed' = "ranked"
  /\ status' = 0
  /\ pc' = "cli_done"
  /\ UNCHANGED <<query, filters, cfg, docs, env, dense, sparse, merged,
                 filtered, results, exc, calls, logits, intent,
                 bm25_scores, fault, args, shown>>

NextCli ==
  \/ CliInitFails \/ CliQuery \/ CliSaveFails \/ CliSave
  \/ CliPrintNoResults \/ CliPrintRaw \/ CliPrintRanked

SpecCli == InitCli /\ [][NextCli]_vars

\* the initialization failed, or writing the output file raised
RunFailed == fault \in InitFaults \/ (args.output /\ fault = "OSError")

\* C15: main returns non-zero exactly when the initialization fails or an
\* exception escapes query processing or output; otherwise it returns 0,
\* printing the no-results message for an empty result list and the ranked
\* results, in either output mode, for a non-empty one.
C15_ExitStatus ==
  pc = "cli_done" =>
    /\ RunFailed => status # 0
    /\ ~RunFailed =>
         /\ status = 0
         /\ results = <<>> => printed = "no_results"
         /\ results # <<>> => printed = "ranked"

\* C16: enhanced_parse_query never raises: it returns an intent for every
\* query, and when one of its steps fails the intent returned has program,
\* degree and category all empty.
C16_NeverRaises ==
  pc = "parse_done" =>
    /\ exc = "none"
    /\ fault # "none" =>
         (intent.program = "" /\ intent.degree = "" /\ intent.category = "")

\* C17: no step of retrieve, on any path, changes self.docs: the corpus
\* keeps its chunks, their order, their text and their metadata.
C17_ReadOnlyCorpus == [][docs' = docs]_vars

\* the short-circuit returned the lookup's chunks in an order that is not
\* the corpus order, and the corpus is as it was loaded
C17_Witness ==
  /\ pc = "done" /\ calls = NoCalls /\ Len(results) >= 2
  /\ results[1][2][1] = docs[3] /\ results[2][2][1] = docs[1]
  /\ docs = Corpus

----------------------------------------------------------------------------
(* Claims about the admission rule and the boost, under SpecFilter *)

\* the strict pass kept the merged candidate: the filtered list holds it
\* and was not produced by the relaxed pass
KeptByStrictPass(e) ==
  /\ ~RelaxedBranch(merged, filters)
  /\ \E j \in DOMAIN filtered : filtered[j][1] = e.doc

\* the admission rule as the claim states it
AdmissionRule(doc, f) ==
  \/ ProgramMatchQuality(doc.metadata, f) > 0
  \/ (f.category # "" /\ 10 * CategoryMatchQuality(doc, f) > 5 * Q)
  \/ (f.slug = "" /\ f.category = "")

\* C18: the strict pass keeps a candidate if and only if programQuality > 0,
\* or a category filter is set and categoryQuality > 0.5, or no program and
\* no category filter is set.
C18_Admission ==
  pc = "filter_done" =>
    \A i \in DOMAIN merged :
       KeptByStrictPass(merged[i]) <=> AdmissionRule(merged[i].doc, filters)

\* the multiplier applied to every candidate the strict pass kept lies
\* between lo and hi (in units of 1.0)
BoostWithin(lo, hi) ==
  ~RelaxedBranch(merged, filters) =>
    \A i \in DOMAIN merged : \A j \in DOMAIN filtered :
       filtered[j][1] = merged[i].doc =>
         /\ lo * Q * merged[i].score <= filtered[j][2]
         /\ filtered[j][2] <= hi * Q * merged[i].score

BoostedScore(e) ==
  LET j == CHOOSE x \in DOMAIN filtered : filtered[x][1] = e.doc
  IN filtered[j][2]

\* C20: of two admitted candidates with the same positive fused score, the
\* one with programQuality > 0 has a boosted score at least as great as the
\* one with programQuality = 0.
C20_ProgramDominates ==
  pc = "filter_done" =>
    \A i, k \in DOMAIN merged :
       (/\ merged[i].score = merged[k].score /\ merged[i].score > 0
        /\ KeptByStrictPass(merged[i]) /\ KeptByStrictPass(merged[k])
        /\ ProgramMatchQuality(merged[i].doc.metadata, filters) > 0
        /\ ProgramMatchQuality(merged[k].doc.metadata, filters) = 0)
         => BoostedScore(merged[i]) >= BoostedScore(merged[k])

----------------------------------------------------------------------------
(* Claims about the reranker's candidates, under Spec *)

\* the (doc, base) pairs of a list
Pairs(s) == {s[i] : i \in DOMAIN s}

\* predict returned and the sort succeeded: the try block produced results
Reranking == RerankCompleted /\ calls.rerank = 1

\* the candidates passed to predict are those of the list expected: one logit
\* per candidate, every reranked entry of the result is one of them, and all
\* of them are in the result when top_k does not truncate.  The inserted
\* entry carries the score 1.0, which is no logit of LogitValues.
RerankedAre(expected) ==
  /\ Len(logits) = Len(expected)
  /\ \A i \in DOMAIN results :
        results[i][1] # One => results[i][2] \in Pairs(expected)
  /\ cfg.top_k >= Len(logits) =>
        \A e \in Pairs(expected) : \E i \in DOMAIN results : results[i][2] = e

\* the highest non-empty match tier of the filtered results
HighestTier ==
  IF ExactProgramCategoryMatches(filtered, filters) # <<>>
  THEN ExactProgramCategoryMatches(filtered, filters)
  ELSE IF ExactProgramMatches(filtered, filters) # <<>>
  THEN ExactProgramMatches(filtered, filters)
  ELSE OtherMatches(filtered, filters)

C21_TierCut == Reranking /\ Len(HighestTier) > cfg.top_m

----------------------------------------------------------------------------
(* SpecLookup: one call of _find_program_application_docs on any corpus *)

\* chunks of the named program, of a program whose name contains it and of
\* another program, with application sections, other sections and a section
\* label in another case
LookupPool ==
  { Doc(1, Meta("Data Engineering", "data-engineering", "apply",
                "application_process"), "apply online"),
    Doc(2, Meta("Data Engineering and Analytics", "data-engineering-and-analytics",
                "apply", "application_process"), "apply online"),
    Doc(3, Meta("Data Engineering", "data-engineering", "info",
                "application_deadlines"), "deadline 31 May"),
    Doc(4, Meta("Data Engineering", "data-engineering", "apply",
                "documents_required"), "transcript"),
    Doc(5, Meta("Data Engineering and Analytics", "data-engineering-and-analytics",
                "info", "admission_process"), "aptitude assessment"),
    Doc(6, Meta("Informatics", "informatics", "apply",
                "application_process"), "apply online"),
    Doc(7, Meta("Data Engineering", "data-engineering", "apply",
                "overview"), "the program"),
    Doc(8, Meta("Data Engineering", "data-engineering", "info",
                "Application_Deadlines"), "deadline 30 November") }

\* greatest length of self.docs
MaxCorpus == 3

\* the corpora: lists of distinct chunks of the pool, in any order
LookupCorpora ==
  UNION { {c \in [1..n -> LookupPool] : \A i, j \in 1..n : i # j => c[i] # c[j]} :
          n \in 0..MaxCorpus }

\* the slugs of the intent
LookupSlugs == {"data-engineering", "Informatics"}

InitLookup ==
  /\ pc = "lookup_call"
  /\ docs \in LookupCorpora
  /\ \E s \in LookupSlugs : filters = Filters(s, "apply")
  /\ query = "" /\ cfg = NoCfg /\ env = NoEnv
  /\ dense = <<>> /\ sparse = <<>> /\ merged = <<>> /\ filtered = <<>>
  /\ results = <<>> /\ exc = "none" /\ calls = NoCalls /\ logits = <<>>
  /\ intent = NoIntent
  /\ NotCli

\* lines 367-422: results holds the returned unique_docs
LookupCall ==
  /\ pc = "lookup_call"
  /\ results' = FindProgramApplicationDocs(docs, ProgramName(filters))
  /\ pc' = "lookup_done"
  /\ UNCHANGED <<query, filters, cfg, docs, env, dense, sparse, merged,
                 filtered, exc, calls, logits, intent,
                 bm25_scores, fault, args, status, shown, printed>>

NextLookup == LookupCall

SpecLookup == InitLookup /\ [][NextLookup]_vars

----------------------------------------------------------------------------
(* Claims about _find_program_application_docs, under SpecLookup *)

SectionOf(doc) == MetaGet(doc.metadata, "section", "")

\* the chunk matches the lookup: its program name contains the intent's and
\* it has an application section, or the category apply and a section
LookupMatches(doc) ==
  LET doc_program == Lower(MetaGet(doc.metadata, "program", ""))
      section     == Lower(SectionOf(doc))
  IN /\ Contains(Lower(ProgramName(filters)), doc_program)
     /\ \/ \E term \in application_section_terms : Contains(term, section)
        \/ (Lower(MetaGet(doc.metadata, "category", "")) = "apply" /\ section # "")

\* C22: the returned list holds no two chunks with the same section label,
\* and every section label of a matching chunk is the label of exactly one
\* returned chunk.
C22_UniqueSections ==
  pc = "lookup_done" =>
    /\ \A i, j \in DOMAIN results :
          i # j => SectionOf(results[i]) # SectionOf(results[j])
    /\ \A d \in Range(docs) :
          LookupMatches(d) =>
            Cardinality({i \in DOMAIN results :
                           SectionOf(results[i]) = SectionOf(d)}) = 1

\* two matching chunks with one section label, of which one was returned
C22_Witness ==
  /\ pc = "lookup_done"
  /\ \E i, j \in DOMAIN docs :
        /\ i # j /\ LookupMatches(docs[i]) /\ LookupMatches(docs[j])
        /\ SectionOf(docs[i]) = SectionOf(docs[j])
        /\ Cardinality({k \in DOMAIN results :
                          SectionOf(results[k]) = SectionOf(docs[i])}) = 1

\* the section label contains the word
SectionHas(doc, word) == Contains(word, Lower(SectionOf(doc)))

\* chunk a may precede chunk b: on the first of process, admission, deadline,
\* documents on which they differ, a has it
MayPrecede(a, b) ==
  LET ka == << SectionHas(a, "application_process"), SectionHas(a, "admission"),
               SectionHas(a, "deadline"), SectionHas(a, "document") >>
      kb == << SectionHas(b, "application_process"), SectionHas(b, "admission"),
               SectionHas(b, "deadline"), SectionHas(b, "document") >>
  IN \/ ka = kb
     \/ \E n \in 1..4 : /\ \A m \in 1..(n - 1) : ka[m] = kb[m]
                        /\ ka[n] /\ ~kb[n]

C29_NamedProgramKept ==
  pc = "lookup_done" =>
    \A d \in Range(docs) :
       (/\ LookupMatches(d)
        /\ Lower(MetaGet(d.metadata, "program", "")) = Lower(ProgramName(filters)))
         => \A i \in DOMAIN results :
               SectionOf(results[i]) = SectionOf(d) =>
                 Lower(MetaGet(results[i].metadata, "program", ""))
                   = Lower(ProgramName(filters))

----------------------------------------------------------------------------
(* Claims about _detect_semantic_intent, under SpecParse *)

\* enhanced_parse_query returned and step 5 left the result of
\* _detect_semantic_intent in the intent (the query holds no "deadline")
IntentDetected ==
  /\ pc = "parse_done" /\ fault = "none"
  /\ ~Contains("deadline", Strip(Lower(query)))

\* the weighted keyword score of entry i of the table for the query
EntryScore(i) == IntentScore(SEMANTIC_CATEGORIES[i], Strip(Lower(query)))

TopScore == Max({EntryScore(i) : i \in DOMAIN SEMANTIC_CATEGORIES})

\* the entry declared first among those of the highest score
FirstTop ==
  CHOOSE i \in DOMAIN SEMANTIC_CATEGORIES :
    EntryScore(i) = TopScore /\ \A j \in 1..(i - 1) : EntryScore(j) # TopScore

\* C24: the category is that of the entry with the highest weighted score,
\* the first declared one on a tie; the type is "specific" exactly when the
\* winning score is at least 3; with no keyword hit the category is empty
\* and the type "general".
C24_CategorySelection ==
  IntentDetected =>
    IF TopScore = 0
    THEN intent.category = "" /\ intent.intent_type = "general"
    ELSE /\ intent.category = SEMANTIC_CATEGORIES[FirstTop].category
         /\ (intent.intent_type = "specific") = (TopScore >= 3)
         /\ intent.intent_type \in {"specific", "general"}

\* two entries of different categories tie for the highest score and the
\* one declared first gave the category
C24_Witness ==
  /\ IntentDetected
  /\ \E i, j \in DOMAIN SEMANTIC_CATEGORIES :
        /\ i < j /\ EntryScore(i) = TopScore /\ EntryScore(j) = TopScore
        /\ TopScore >= 3
        /\ SEMANTIC_CATEGORIES[i].category # SEMANTIC_CATEGORIES[j].category
        /\ intent.category = SEMANTIC_CATEGORIES[i].category

----------------------------------------------------------------------------
(* ImprovedHybridRetriever._apply_enhanced_filters *)

\* a relevance multiplier of 1.0, and the unit its factors are written in
RM == 4

FactorDen == 2

\* cfg.get defaults and literal factors, in units of 1/FactorDen
exact_match_boost == 4

word_match_boost == 3

deadline_priority_boost == 6

specialized_chunk_boost == 4

semantic_boost == 3

Times(m, factor) == (m * factor) \div FactorDen

\* calculate_relevance_score: base_score * relevance_multiplier, 1.0 being
\* ScoreDen * RM; temporal is intent and intent.temporal_keywords
RelevanceMultiplier(doc, base_score, f, temporal) ==
  LET meta           == doc.metadata
      target_program == Replace(Lower(f.slug), "-", " ")
      doc_program    == Lower(MetaGet(meta, "program", ""))
      words          == SplitWords(target_program)
      m1 == IF f.slug = "" THEN RM
            ELSE IF Contains(target_program, doc_program)
                 THEN Times(RM, exact_match_boost)
            ELSE IF \E i \in DOMAIN words : Contains(words[i], doc_program)
                 THEN Times(RM, word_match_boost)
            ELSE RM
      target_category == Lower(f.category)
      doc_category    == Lower(MetaGet(meta, "category", ""))
      doc_section     == Lower(MetaGet(meta, "section", ""))
      m2 == IF f.category # "" /\ doc_category = target_category
            THEN Times(m1, exact_match_boost) ELSE m1
      m3 == IF /\ f.category # "" /\ temporal
               /\ (Contains("deadline", doc_section) \/ Contains("period", doc_section))
            THEN Times(m2, deadline_priority_boost) ELSE m2
      m4 == IF /\ f.category # ""
               /\ MetaGet(meta, "chunk_type", "") \in {"deadline", "application"}
            THEN Times(m3, specialized_chunk_boost) ELSE m3
  IN IF 10 * base_score > 8 * ScoreDen THEN Times(m4, semantic_boost) ELSE m4

CalculateRelevanceScore(doc, base_score, f, temporal) ==
  base_score * RelevanceMultiplier(doc, base_score, f, temporal)

\* the minimum relevance threshold: enhanced_score > 0.1
AboveThreshold(enhanced_score) == 10 * enhanced_score > ScoreDen * RM

\* results_with_scores, sorted by enhanced score
ApplyEnhancedFilters(m, f, temporal) ==
  LET scored == [i \in DOMAIN m |->
                   <<m[i].doc, CalculateRelevanceScore(m[i].doc, m[i].score, f, temporal)>>]
  IN SortDesc(SelectSeq(scored, LAMBDA p : AboveThreshold(p[2])))

----------------------------------------------------------------------------
(* SpecEnhanced: _apply_enhanced_filters applied to every input *)

\* a metadata dict of the improved chunker, which also writes chunk_type
MetaWithChunkType(program, slug, category, section, chunk_type) ==
  [program |-> program, slug |-> slug, category |-> category, section |-> section,
   chunk_type |-> chunk_type]

EnhancedPool ==
  { Doc(1, MetaWithChunkType("Data Engineering", "data-engineering", "apply",
                             "application_deadlines", "deadline"), "deadline 31 May"),
    Doc(2, Meta("Data Engineering", "data-engineering", "info", "overview"),
        "courses and modules"),
    Doc(3, Meta("Engineering Science", "engineering-science", "keydata", "credits"),
        "120 ects"),
    Doc(4, Meta("Informatics", "informatics", "apply", "application_period"),
        "winter semester"),
    Doc(5, EmptyMeta, "apply here") }

\* fused scores 0, 0.05, 0.1, 0.5 and 0.9
EnhancedScores ==
  {0, ScoreDen \div 20, ScoreDen \div 10, ScoreDen \div 2, (9 * ScoreDen) \div 10}

\* most entries of the merged mapping
MaxCandidates == 2

EnhancedMerged ==
  UNION { { [i \in 1..n |-> Entry(ds[i], sc[i])] :
              ds \in {x \in [1..n -> EnhancedPool] :
                        \A i, j \in 1..n : i # j => x[i] # x[j]},
              sc \in [1..n -> EnhancedScores] } :
          n \in 0..MaxCandidates }

EnhancedFilters ==
  {Filters(s, c) : s \in {"", "data-engineering"}, c \in {"", "apply"}}

\* intent.temporal_keywords of the call
TemporalInputs == {<<>>, <<"deadline">>}

InitEnhanced ==
  /\ pc = "enhanced_call"
  /\ merged \in EnhancedMerged
  /\ filters \in EnhancedFilters
  /\ \E t \in TemporalInputs :
        intent = [NoIntent EXCEPT !.program = filters.slug,
                                  !.category = filters.category,
                                  !.temporal_keywords = t]
  /\ query = "" /\ cfg = NoCfg /\ docs = <<>> /\ env = NoEnv
  /\ dense = <<>> /\ sparse = <<>> /\ filtered = <<>> /\ results = <<>>
  /\ exc = "none" /\ calls = NoCalls /\ logits = <<>>
  /\ NotCli

\* lines 147-206
EnhancedFilterCall ==
  /\ pc = "enhanced_call"
  /\ filtered' = ApplyEnhancedFilters(merged, filters, intent.temporal_keywords # <<>>)
  /\ pc' = "enhanced_done"
  /\ UNCHANGED <<query, filters, cfg, docs, env, dense, sparse, merged,
                 results, exc, calls, logits, intent,
                 bm25_scores, fault, args, status, shown, printed>>

NextEnhanced == EnhancedFilterCall

SpecEnhanced == InitEnhanced /\ [][NextEnhanced]_vars

\* C25: when the intent has no program and no category,
\* _apply_enhanced_filters returns every input candidate, those of a low
\* fused score included.
C25_PassThroughImproved ==
  (pc = "enhanced_done" /\ filters.slug = "" /\ filters.category = "")
    => \A i \in DOMAIN merged :
          \E j \in DOMAIN filtered : filtered[j][1] = merged[i].doc

\* without program and category every candidate of a fused score above 0.1
\* is returned
C25_AboveThresholdKept ==
  (pc = "enhanced_done" /\ filters.slug = "" /\ filters.category = "")
    => \A i \in DOMAIN merged :
          10 * merged[i].score > ScoreDen
            => \E j \in DOMAIN filtered : filtered[j][1] = merged[i].doc

----------------------------------------------------------------------------
(* Claims about the relaxed re-scan, under SpecFilter *)

\* C26: whenever the relaxed branch runs (the strict pass admitted nothing
\* and a program filter is set) no candidate satisfies the relaxed
\* word-overlap test, and the function returns an empty list.
C26_RelaxedAddsNothing ==
  (pc = "filter_done" /\ RelaxedBranch(merged, filters))
    => /\ \A i \in DOMAIN merged : ~RelaxedMatch(merged[i].doc, filters)
       /\ filtered = <<>>

\* the relaxed branch ran over candidates that have metadata and a program
\* name
C26_Witness ==
  /\ pc = "filter_done" /\ RelaxedBranch(merged, filters)
  /\ filtered = <<>>
  /\ \E i \in DOMAIN merged :
        /\ Truthy(merged[i].doc.metadata)
        /\ MetaGet(merged[i].doc.metadata, "program", "") # ""

----------------------------------------------------------------------------
(* Claims about the returned list, under Spec *)

\* C27: the list retrieve returns never holds the same chunk (the same
\* Document object) more than once.
C27_NoDuplicates ==
  pc = "done" =>
    \A i, j \in DOMAIN results : i # j => results[i][2][1] # results[j][2][1]

\* the same statement for the calls in which the reranker inserted nothing
C27_NoDuplicatesWithoutInsertion ==
  (pc = "done" /\ \A i \in DOMAIN results : calls.rerank = 1 => results[i][1] # One)
    => \A i, j \in DOMAIN results : i # j => results[i][2][1] # results[j][2][1]
\* the reported final scores do not increase along the list
ScoreOrdered ==
  \A i, j \in DOMAIN results : i < j => results[i][1] >= results[j][1]

\* C28: the list _rerank_with_exact_priority returns is in non-increasing
\* order of its reported final score, also after the rank-1 insertion.
C28_ScoreOrdered == (pc = "done" /\ calls.rerank = 1) => ScoreOrdered

\* the same statement for the calls in which the reranker inserted nothing
C28_ScoreOrderedWithoutInsertion ==
  (pc = "done" /\ calls.rerank = 1 /\ \A i \in DOMAIN results : results[i][1] # One)
    => ScoreOrdered

----------------------------------------------------------------------------
(* prepare_corpus.build_corpus and the two chunkers *)

\* a chunk: its record's slug, its section, chunk_index and total_chunks when
\* the chunker writes them, the length of its text, and the position of the
\* yield that made it (the chunk's uuid stands for rec and seq)
Chunk(rec, seq, kind, section, indexed, chunk_index, total_chunks, text_len) ==
  [rec |-> rec, seq |-> seq, kind |-> kind, slug |-> rec.slug, section |-> section,
   indexed |-> indexed, chunk_index |-> chunk_index,
   total_chunks |-> total_chunks, text_len |-> text_len]

\* one piece of a section's text, and a key-data value
PieceText == "Apply online by 31 May."

KeyDataValue == "120"

\* len of f"{cat.upper()} . {sec.replace('_',' ').title()}\n\n{piece}"
TextLen(cat, sec) == Len(cat) + 3 + Len(sec) + 2 + Len(PieceText)

\* len of f"DESC . Overview\n\n{description}"
DescLen == Len("DESC") + 3 + Len("Overview") + 2 + Len(PieceText)

\* the description chunk, if the record has a description
DescriptionChunks(rec) ==
  IF rec.description
  THEN <<Chunk(rec, 0, "desc", "overview", FALSE, 0, 0, DescLen)>>
  ELSE <<>>

\* the chunks of the pieces of the section's main text
TextChunks(rec, extra_len) ==
  [i \in 1..rec.pieces |->
     Chunk(rec, i, "text", rec.section, TRUE, i - 1, rec.pieces,
           TextLen(rec.category, rec.section) + extra_len)]

\* the chunks of the pieces of the section's PDF; the header also names the
\* PDF: " (PDF: {pdf['text']})"
PdfTitle == "form"

PdfChunks(rec) ==
  [i \in 1..rec.pdf_pieces |->
     Chunk(rec, 100 + i, "pdf", rec.section, TRUE, i - 1, rec.pdf_pieces,
           TextLen(rec.category, rec.section) + Len(" (PDF: )") + Len(PdfTitle))]

\* keydata_chunks: one chunk per key with a value, without chunk_index;
\* len of f"{k.replace('_', ' ').title()}: {txt}" plus the header's
KeyDataChunks(rec, header_len) ==
  [i \in 1..Len(rec.key_data) |->
     Chunk(rec, 200 + i, "keydata", rec.key_data[i], FALSE, 0, 0,
           header_len + Len(rec.key_data[i]) + 2 + Len(KeyDataValue))]

\* iter_chunks of prepare_corpus.py
IterChunks(rec) ==
  DescriptionChunks(rec) \o TextChunks(rec, 0) \o PdfChunks(rec)
    \o KeyDataChunks(rec, 0)

\* the dedicated deadline chunk of create_qa_oriented_chunks
DeadlineChunks(rec) ==
  IF /\ rec.pieces > 0 /\ rec.category = "apply"
     /\ (Contains("deadline", Lower(rec.section)) \/ Contains("period", Lower(rec.section)))
  THEN <<Chunk(rec, 300, "deadline", rec.section, FALSE, 0, 0,
               Len("DEADLINE INFO . ") + Len(rec.program_name) + 2
                 + Len("Program: ") + Len(rec.program_name) + 1
                 + Len("Section: ") + Len(rec.section) + 2
                 + rec.pieces * Len(PieceText))>>
  ELSE <<>>

\* create_qa_oriented_chunks of improved_chunking.py: no PDF chunks, the
\* headers carry the program name
CreateQaOrientedChunks(rec) ==
  DescriptionChunks(rec) \o DeadlineChunks(rec)
    \o TextChunks(rec, Len(rec.program_name) + 3)
    \o KeyDataChunks(rec, Len("KEYDATA . ") + Len(rec.program_name) + 2)

ChunkFunction(rec, use_improved_chunking) ==
  IF use_improved_chunking THEN CreateQaOrientedChunks(rec) ELSE IterChunks(rec)

\* shortest text build_corpus keeps
MinTextLen == 30

\* sig = (slug, section, chunk_index or 0)
Sig(chunk) ==
  <<chunk.slug, chunk.section, IF chunk.indexed THEN chunk.chunk_index ELSE 0>>

\* the loop over the chunks of all records, in order: docs and seen
RECURSIVE BuildFrom(_, _, _, _)
BuildFrom(chunks, i, built, seen) ==
  IF i > Len(chunks) THEN built
  ELSE IF chunks[i].text_len < MinTextLen \/ Sig(chunks[i]) \in seen
       THEN BuildFrom(chunks, i + 1, built, seen)
       ELSE BuildFrom(chunks, i + 1, Append(built, chunks[i]),
                      seen \cup {Sig(chunks[i])})

RECURSIVE AllChunks(_, _, _)
AllChunks(recs, r, use_improved_chunking) ==
  IF r > Len(recs) THEN <<>>
  ELSE ChunkFunction(recs[r], use_improved_chunking)
         \o AllChunks(recs, r + 1, use_improved_chunking)

BuildCorpus(recs, use_improved_chunking) ==
  BuildFrom(AllChunks(recs, 1, use_improved_chunking), 1, <<>>, {})

----------------------------------------------------------------------------
(* SpecBuild: one run of build_corpus over the records of a directory *)

\* most pieces the chunker cuts a text into
MaxPieces == 2

\* most records of the directory
MaxRecords == 2

\* the programs: (program_name, slug) as slug_and_degree derives it
Programs == { <<"Informatics", "informatics">>, <<"Data Engineering", "data-engineering">> }

\* the sections: (block category, section label)
Sections == { <<"info", "overview">>, <<"apply", "application_deadlines">> }

\* the records: a program, one section with its text pieces and the pieces
\* of its PDF, and optionally a description with two key-data entries
RecordInputs ==
  { [program_name |-> p[1], slug |-> p[2], category |-> sc[1], section |-> sc[2],
     pieces |-> n, pdf_pieces |-> m, description |-> x,
     key_data |-> IF x THEN <<"credits", "application_deadlines">> ELSE <<>>] :
      p \in Programs, sc \in Sections, n \in 0..MaxPieces, m \in 0..1,
      x \in BOOLEAN }

InitBuild ==
  /\ pc = "build_call"
  /\ \E n \in 0..MaxRecords : \E recs \in [1..n -> RecordInputs] :
       \E improved \in BOOLEAN :
          args = [records |-> recs, use_improved_chunking |-> improved]
  /\ docs = <<>>
  /\ query = "" /\ filters = Filters("", "") /\ cfg = NoCfg /\ env = NoEnv
  /\ dense = <<>> /\ sparse = <<>> /\ merged = <<>> /\ filtered = <<>>
  /\ results = <<>> /\ exc = "none" /\ calls = NoCalls /\ logits = <<>>
  /\ intent = NoIntent
  /\ bm25_scores = <<>> /\ fault = "none" /\ status = NotExited
  /\ shown = <<>> /\ printed = "nothing"

\* lines 152-179
BuildCall ==
  /\ pc = "build_call"
  /\ docs' = BuildCorpus(args.records, args.use_improved_chunking)
  /\ pc' = "build_done"
  /\ UNCHANGED <<query, filters, cfg, env, dense, sparse, merged,
                 filtered, results, exc, calls, logits, intent,
                 bm25_scores, fault, args, status, shown, printed>>

NextBuild == BuildCall

SpecBuild == InitBuild /\ [][NextBuild]_vars

\* the records have pairwise distinct slugs
DistinctSlugs ==
  \A i, j \in DOMAIN args.records :
     i # j => args.records[i].slug # args.records[j].slug

\* the chunks the chunker yielded, with the number of their record
Yielded ==
  UNION { { <<r, c>> : c \in Range(ChunkFunction(args.records[r],
                                                 args.use_improved_chunking)) } :
          r \in DOMAIN args.records }

\* the chunk of record r is in the corpus, at a position of its own
Kept(r, c) ==
  \E k \in DOMAIN docs :
     /\ docs[k] = c
     /\ Cardinality({x \in Yielded : x[1] <= r /\ x[2] = c /\ x[2].text_len >= MinTextLen})
          <= Cardinality({j \in DOMAIN docs : docs[j] = c})

\* C30: for records with pairwise distinct slugs the corpus holds every
\* yielded chunk of at least 30 characters, and every kept chunk that has a
\* chunk_index has chunk_index < total_chunks.
C30_NoChunkLost ==
  (pc = "build_done" /\ DistinctSlugs) =>
    /\ \A x \in Yielded : x[2].text_len >= MinTextLen => Kept(x[1], x[2])
    /\ \A k \in DOMAIN docs :
          docs[k].indexed => docs[k].chunk_index < docs[k].total_chunks

\* no two chunks of one record have the same (slug, section, chunk_index)
NoClashInsideRecord ==
  \A x, y \in Yielded :
     (x[1] = y[1] /\ x[2] # y[2] /\ x[2].text_len >= MinTextLen
        /\ y[2].text_len >= MinTextLen) => Sig(x[2]) # Sig(y[2])

\* the same statement for records whose own chunks have distinct keys
C30_NoChunkLostWithoutClash ==
  (pc = "build_done" /\ DistinctSlugs /\ NoClashInsideRecord) =>
    /\ \A x \in Yielded : x[2].text_len >= MinTextLen => Kept(x[1], x[2])
    /\ \A k \in DOMAIN docs :
          docs[k].indexed => docs[k].chunk_index < docs[k].total_chunks

====
